---------------------------- MODULE Spec2Model ----------------------------
(***************************************************************************)
(* A model of kiglent: the event-dispatch core (kiglent/event.py), the     *)
(* keyboard state handler (kiglent/window/key.py), the rendering groups    *)
(* (graphics/groups.py), the shapes' vertex-list ownership and colours     *)
(* (shapes/__init__.py, shapes/rectangle.py) and the native binding        *)
(* loaders (gl/lib_agl.py, kiglent/libs/egl/lib.py).                       *)
(*                                                                         *)
(* Each component has its own variables, its own initial condition and its *)
(* own next-state relation; a component's specification keeps the other    *)
(* components' variables at their idle values.                             *)
(***************************************************************************)
EXTENDS Integers, Sequences, FiniteSets, TLC

VARIABLES
    events,         \* EventDispatcher._events: dispatcher -> (event name -> deque of callables)
    handlers,       \* EventDispatcher._event_dispatcher_handlers: dispatcher -> deque of handlers
    regLog,         \* history: per dispatcher and event, the callables in the order add_event got them
    pushLog,        \* history: per dispatcher, the handlers in the order push_handler got them
    lastCall,       \* the most recent dispatch_event call: its arguments, calls made and outcome
    data,           \* KeyStateHandler.data: key symbol -> bool (a dict: keys may be absent)
    lastKeyEvent,   \* history: per key, the most recent event that affected it
    lastQuery,      \* the most recent KeyStateHandler[key] read
    defined,        \* the subclasses of EventDispatcher whose class statement has run
    classRef,       \* cls._class_events: the set object each class refers to (0 is None)
    setObj,         \* the contents of each set object
    declaredAtDef,  \* history: the events a subclass's bases had declared when it was defined
    inst,           \* the most recent instance: its class, its _events and the events declared then
    registerCalls,  \* the number of register_event_type calls so far
    shape,          \* the ShapeBase instance: _vertex_list, _batch, _user_group, _program, blend mode
    vlists,         \* the vertex lists made so far and the delete() calls each received
    finalized,      \* whether __del__ has run
    shapeOp,        \* the most recent operation on the shape and how it ended
    ga,             \* the first group compared
    gb,             \* the second group compared
    cmp,            \* the result of the comparison: a == b, hash(a), hash(b)
    projection,     \* window.projection
    chain,          \* the parent chain of transform groups, root first, each with its _projection snapshot
    original,       \* history: window.projection before the last set_state_recursive
    phase,          \* idle, set (between the two calls) or restored
    libs,           \* gl_lib, agl_lib, egl_lib: the symbols each loaded library exports
    procAddr,       \* the names eglGetProcAddress resolves to a non-null address
    lastLink,       \* the most recent link_GL / link_AGL / link_EGL call and what it returned
    rect,           \* the BorderedRectangle: _rgba and _border_rgba
    rectOp,         \* the most recent operation on the rectangle
    rectNew,        \* the BorderedRectangle(...) call, when the most recent operation was one: its colours, what it raised, the vertex lists it made
    cshape,         \* a shape: its class, _rgba and (BorderedRectangle) _border_rgba
    colorOp,        \* the most recent constructor call or color assignment and its arguments
    symCall,        \* the most recent call of symbol_string, motion_string or user_key and its outcome
    userKeyCall,    \* the most recent user_key call made before symCall
    modCall,        \* the most recent modifiers_string call: its argument and its result
    projCall,       \* the most recent Mat4.orthogonal_projection call: its arguments and its outcome
    mmCall,         \* the most recent self @ other: the class of self, the operands and the outcome
    vecCall,        \* the most recent vector operation: the operands and the outcome
    compat_platform,\* kiglent.compat_platform
    audio_device_manager,\* _audio_device_manager: the cached manager, or NoManager
    managersConstructed,\* how many Win32AudioDeviceManager objects were constructed
    getCalls,       \* how many get_audio_device_manager calls were made
    devLog,         \* the most recent call: what it returned, the cache before it, what it constructed
    first_heading,  \* _first_heading
    lastDump,       \* the most recent dump(): the probes' outcomes, what was printed, what escaped
    groupParent,    \* Group.parent of each group (NoParent: None)
    walked,         \* the most recent recursive call: the group it was made on and the set_state / unset_state calls it made
    mshape,         \* a shape: its blend mode, program, user group, derived group, batch and vertex list
    migOp,          \* the most recent assignment and what it did with the vertex list
    ushape,         \* a shape: its position, anchor, visibility, rotation and colour
    lastUpdate,     \* the most recent update call: the arguments supplied, the shape before it, the attributes written
    vshape,         \* a MultiLine or an Arc: its class, coordinates or segments, closed, visible and declared vertex count
    vertsOp,        \* the most recent operation on the shape and the number of vertices it uploaded
    options,        \* kiglent.options: the debug_media flag
    driverGlobals,  \* for each driver module, whether it is imported and its _debug global
    driverCall,     \* the most recent operation: the option at that time and the calls a factory made
    regEvents,      \* _events of one dispatcher: for each key the deque of callables
    regCall,        \* the most recent call on the dispatcher: the table before it, what it raised, the callables a dispatch visited
    eshape,         \* a shape: the fields update() can change
    sameOp,         \* the most recent colour operation, the colour before it and the colour the other operation gives
    cmat,           \* the current matrix
    composeCall     \* the most recent call on the matrix: the vector and the matrix returned

eventVars == <<events, handlers, regLog, pushLog, lastCall, data, lastKeyEvent, lastQuery>>
classVars == <<defined, classRef, setObj, declaredAtDef, inst, registerCalls>>
shapeVars == <<shape, vlists, finalized, shapeOp>>
groupVars == <<ga, gb, cmp>>
stackVars == <<projection, chain, original, phase>>
linkVars == <<libs, procAddr, lastLink>>
rectVars == <<rect, rectOp, rectNew>>
colorVars == <<cshape, colorOp>>
symVars == <<symCall, userKeyCall>>
modVars == <<modCall>>
projVars == <<projCall>>
matmulVars == <<mmCall>>
vecVars == <<vecCall>>
devVars == <<compat_platform, audio_device_manager, managersConstructed, getCalls, devLog>>
infoVars == <<first_heading, lastDump>>
walkVars == <<groupParent, walked>>
migVars == <<mshape, migOp>>
updateVars == <<ushape, lastUpdate>>
vertsVars == <<vshape, vertsOp>>
drvVars == <<options, driverGlobals, driverCall>>
regVars == <<regEvents, regCall>>
sameVars == <<eshape, sameOp>>
composeVars == <<cmat, composeCall>>
otherThanEvent == <<classVars, shapeVars, groupVars, stackVars, linkVars, rectVars, colorVars, symVars, modVars, projVars, matmulVars, vecVars, devVars, infoVars, walkVars, migVars, updateVars, vertsVars, drvVars, regVars, sameVars, composeVars>>
otherThanClass == <<eventVars, shapeVars, groupVars, stackVars, linkVars, rectVars, colorVars, symVars, modVars, projVars, matmulVars, vecVars, devVars, infoVars, walkVars, migVars, updateVars, vertsVars, drvVars, regVars, sameVars, composeVars>>
otherThanShape == <<eventVars, classVars, groupVars, stackVars, linkVars, rectVars, colorVars, symVars, modVars, projVars, matmulVars, vecVars, devVars, infoVars, walkVars, migVars, updateVars, vertsVars, drvVars, regVars, sameVars, composeVars>>
otherThanGroup == <<eventVars, classVars, shapeVars, stackVars, linkVars, rectVars, colorVars, symVars, modVars, projVars, matmulVars, vecVars, devVars, infoVars, walkVars, migVars, updateVars, vertsVars, drvVars, regVars, sameVars, composeVars>>
otherThanStack == <<eventVars, classVars, shapeVars, groupVars, linkVars, rectVars, colorVars, symVars, modVars, projVars, matmulVars, vecVars, devVars, infoVars, walkVars, migVars, updateVars, vertsVars, drvVars, regVars, sameVars, composeVars>>
otherThanLink == <<eventVars, classVars, shapeVars, groupVars, stackVars, rectVars, colorVars, symVars, modVars, projVars, matmulVars, vecVars, devVars, infoVars, walkVars, migVars, updateVars, vertsVars, drvVars, regVars, sameVars, composeVars>>
otherThanRect == <<eventVars, classVars, shapeVars, groupVars, stackVars, linkVars, colorVars, symVars, modVars, projVars, matmulVars, vecVars, devVars, infoVars, walkVars, migVars, updateVars, vertsVars, drvVars, regVars, sameVars, composeVars>>
otherThanColor == <<eventVars, classVars, shapeVars, groupVars, stackVars, linkVars, rectVars, symVars, modVars, projVars, matmulVars, vecVars, devVars, infoVars, walkVars, migVars, updateVars, vertsVars, drvVars, regVars, sameVars, composeVars>>
otherThanSym == <<eventVars, classVars, shapeVars, groupVars, stackVars, linkVars, rectVars, colorVars, modVars, projVars, matmulVars, vecVars, devVars, infoVars, walkVars, migVars, updateVars, vertsVars, drvVars, regVars, sameVars, composeVars>>
otherThanMod == <<eventVars, classVars, shapeVars, groupVars, stackVars, linkVars, rectVars, colorVars, symVars, projVars, matmulVars, vecVars, devVars, infoVars, walkVars, migVars, updateVars, vertsVars, drvVars, regVars, sameVars, composeVars>>
otherThanProj == <<eventVars, classVars, shapeVars, groupVars, stackVars, linkVars, rectVars, colorVars, symVars, modVars, matmulVars, vecVars, devVars, infoVars, walkVars, migVars, updateVars, vertsVars, drvVars, regVars, sameVars, composeVars>>
otherThanMatmul == <<eventVars, classVars, shapeVars, groupVars, stackVars, linkVars, rectVars, colorVars, symVars, modVars, projVars, vecVars, devVars, infoVars, walkVars, migVars, updateVars, vertsVars, drvVars, regVars, sameVars, composeVars>>
otherThanVec == <<eventVars, classVars, shapeVars, groupVars, stackVars, linkVars, rectVars, colorVars, symVars, modVars, projVars, matmulVars, devVars, infoVars, walkVars, migVars, updateVars, vertsVars, drvVars, regVars, sameVars, composeVars>>
otherThanDev == <<eventVars, classVars, shapeVars, groupVars, stackVars, linkVars, rectVars, colorVars, symVars, modVars, projVars, matmulVars, vecVars, infoVars, walkVars, migVars, updateVars, vertsVars, drvVars, regVars, sameVars, composeVars>>
otherThanInfo == <<eventVars, classVars, shapeVars, groupVars, stackVars, linkVars, rectVars, colorVars, symVars, modVars, projVars, matmulVars, vecVars, devVars, walkVars, migVars, updateVars, vertsVars, drvVars, regVars, sameVars, composeVars>>
otherThanWalk == <<eventVars, classVars, shapeVars, groupVars, stackVars, linkVars, rectVars, colorVars, symVars, modVars, projVars, matmulVars, vecVars, devVars, infoVars, migVars, updateVars, vertsVars, drvVars, regVars, sameVars, composeVars>>
otherThanMig == <<eventVars, classVars, shapeVars, groupVars, stackVars, linkVars, rectVars, colorVars, symVars, modVars, projVars, matmulVars, vecVars, devVars, infoVars, walkVars, updateVars, vertsVars, drvVars, regVars, sameVars, composeVars>>
otherThanUpdate == <<eventVars, classVars, shapeVars, groupVars, stackVars, linkVars, rectVars, colorVars, symVars, modVars, projVars, matmulVars, vecVars, devVars, infoVars, walkVars, migVars, vertsVars, drvVars, regVars, sameVars, composeVars>>
otherThanVerts == <<eventVars, classVars, shapeVars, groupVars, stackVars, linkVars, rectVars, colorVars, symVars, modVars, projVars, matmulVars, vecVars, devVars, infoVars, walkVars, migVars, updateVars, drvVars, regVars, sameVars, composeVars>>
otherThanDrv == <<eventVars, classVars, shapeVars, groupVars, stackVars, linkVars, rectVars, colorVars, symVars, modVars, projVars, matmulVars, vecVars, devVars, infoVars, walkVars, migVars, updateVars, vertsVars, regVars, sameVars, composeVars>>
otherThanReg == <<eventVars, classVars, shapeVars, groupVars, stackVars, linkVars, rectVars, colorVars, symVars, modVars, projVars, matmulVars, vecVars, devVars, infoVars, walkVars, migVars, updateVars, vertsVars, drvVars, sameVars, composeVars>>
otherThanSame == <<eventVars, classVars, shapeVars, groupVars, stackVars, linkVars, rectVars, colorVars, symVars, modVars, projVars, matmulVars, vecVars, devVars, infoVars, walkVars, migVars, updateVars, vertsVars, drvVars, regVars, composeVars>>
otherThanCompose == <<eventVars, classVars, shapeVars, groupVars, stackVars, linkVars, rectVars, colorVars, symVars, modVars, projVars, matmulVars, vecVars, devVars, infoVars, walkVars, migVars, updateVars, vertsVars, drvVars, regVars, sameVars>>
otherThanInfoDrv == <<eventVars, classVars, shapeVars, groupVars, stackVars, linkVars, rectVars, colorVars, symVars, modVars, projVars, matmulVars, vecVars, devVars, walkVars, migVars, updateVars, vertsVars, regVars, sameVars, composeVars>>

vars == <<eventVars, classVars, shapeVars, groupVars, stackVars, linkVars, rectVars, colorVars, symVars, modVars, projVars, matmulVars, vecVars, devVars, infoVars, walkVars, migVars, updateVars, vertsVars, drvVars, regVars, sameVars, composeVars>>

-----------------------------------------------------------------------------
(* Small helpers on sequences and dicts.                                   *)

Reverse(s) == [i \in 1..Len(s) |-> s[Len(s) + 1 - i]]

IsPrefix(s, t) == Len(s) <= Len(t) /\ \A i \in 1..Len(s) : s[i] = t[i]

\* dict[key] = value on a Python dict held as a function whose domain is the key set
DictSet(m, key, value) == [x \in DOMAIN m \cup {key} |-> IF x = key THEN value ELSE m[x]]

EmptyDict == [x \in {} |-> 0]

\* deque.remove(value): the first occurrence goes
RECURSIVE DequeRemove(_, _)
DequeRemove(q, f) ==
    IF q = <<>> THEN <<>>
    ELSE IF Head(q) = f THEN Tail(q)
    ELSE <<Head(q)>> \o DequeRemove(Tail(q), f)

\* an argument or dict key that may be absent: a sequence of at most one value
Optional(values) == {<<>>} \cup {<<v>> : v \in values}

-----------------------------------------------------------------------------
(* kiglent/event.py: EventDispatcher and EventHandler.                     *)

MaxHandlers == 2    \* at most this many downstream handlers pushed over all dispatchers

Dispatchers == {"d1", "d2"}          \* EventDispatcher instances
KeyHandler == "keys"                 \* the one KeyStateHandler instance (an EventHandler)
HandlerRefs == Dispatchers \cup {KeyHandler}
Callables == {"A", "B", "C"}         \* functions an application registers
EventNames == {"on_key_press", "on_key_release", "on_deactivate", "on_draw"}
\* the events the application registers callables for and dispatches itself
AppEvents == {"on_deactivate", "on_draw"}
Keys == {1, 2, 3}                      \* key symbols
NoArg == 0

\* EVENT_HANDLED is True and EVENT_UNHANDLED is None
EVENT_HANDLED == "True"
EVENT_UNHANDLED == "None"
PyReturns == {EVENT_HANDLED, EVENT_UNHANDLED}

\* Python truthiness of what a handler returns: `if func(*args, **kwargs):`
Truthy(r) == r = "True"

\* the positional arguments the window passes with each event
EventArgs(e) == IF e \in {"on_key_press", "on_key_release"} THEN Keys ELSE {NoArg}

\* KeyStateHandler's methods
KeyStateHandlerMethods == {"on_key_press", "on_key_release", "on_deactivate"}

\* self.data[symbol] = True
on_key_press(kd, symbol) == DictSet(kd, symbol, TRUE)

\* self.data[symbol] = False
on_key_release(kd, symbol) == DictSet(kd, symbol, FALSE)

\* a handler that forgets to reset the keys when the window loses focus
on_deactivate_keeps(kd) == kd

\* self.data.clear()
on_deactivate(kd) == EmptyDict

\* __getitem__: self.data.get(key, False); the value read and the dict afterwards
\* (dict.get inserts nothing)
KeyStateHandler_getitem(kd, key) ==
    [value |-> IF key \in DOMAIN kd THEN kd[key] ELSE FALSE, data |-> kd]

\* EventHandler.dispatch_event on the KeyStateHandler: getattr(self, event)(*args).
\* getattr raises AttributeError when the handler has no method of that name;
\* the three methods return None.
EventHandler_dispatch_event(kd, e, arg) ==
    IF e \notin KeyStateHandlerMethods
    THEN [res |-> "raise", data |-> kd]
    ELSE [res |-> EVENT_UNHANDLED,
          data |-> CASE e = "on_key_press" -> on_key_press(kd, arg)
                     [] e = "on_key_release" -> on_key_release(kd, arg)
                     [] OTHER -> on_deactivate(kd)]

\* a dispatcher that appends at the right end of the deque
add_event_append(evs, e, f) ==
    DictSet(evs, e, IF e \in DOMAIN evs THEN evs[e] \o <<f>> ELSE <<f>>)

\* self._events[event].appendleft(func): the defaultdict creates the deque
add_event(evs, e, f) ==
    DictSet(evs, e, IF e \in DOMAIN evs THEN <<f>> \o evs[e] ELSE <<f>>)

\* self._event_dispatcher_handlers.appendleft(handler)
push_handler(hs, h) == <<h>> \o hs

\* self._event_dispatcher_handlers.remove(handler): the leftmost occurrence goes;
\* deque.remove raises ValueError when there is none
remove_handler(hs, h) ==
    IF \E i \in 1..Len(hs) : hs[i] = h
    THEN [handlers |-> DequeRemove(hs, h), raised |-> ""]
    ELSE [handlers |-> hs, raised |-> "ValueError"]

\* self._events.get(event): None when the key is absent; `if functions:` treats
\* None and an empty deque alike
EventsGet(evs, e) == IF e \in DOMAIN evs THEN evs[e] ELSE <<>>

\* for func in functions: if func(*args, **kwargs): return True
\* ret gives what each callable returns in this call.
RECURSIVE CallFunctions(_, _, _)
CallFunctions(fs, d, ret) ==
    IF fs = <<>> THEN [hit |-> FALSE, trace |-> <<>>]
    ELSE LET f == Head(fs)
             entry == [by |-> d, kind |-> "func", target |-> f, ret |-> ret[f]]
         IN IF Truthy(ret[f])
            THEN [hit |-> TRUE, trace |-> <<entry>>]
            ELSE LET rest == CallFunctions(Tail(fs), d, ret)
                 IN [hit |-> rest.hit, trace |-> <<entry>> \o rest.trace]

\* dispatch_event(event, *args): the local callables, then the downstream
\* handlers; an exception raised by a handler propagates to the caller.
\* Returns the outcome (True, False or raise), the calls made in order and the
\* KeyStateHandler's data afterwards.
RECURSIVE dispatch_event(_, _, _, _, _, _, _)
RECURSIVE CallHandlers(_, _, _, _, _, _, _, _)
CallHandlers(hs, evs, hds, d, e, arg, ret, kd) ==
    IF hs = <<>> THEN [res |-> "False", trace |-> <<>>, data |-> kd]
    ELSE LET h == Head(hs)
             sub == IF h = KeyHandler
                    THEN LET r == EventHandler_dispatch_event(kd, e, arg)
                         IN [res |-> r.res, trace |-> <<>>, data |-> r.data]
                    ELSE dispatch_event(evs, hds, h, e, arg, ret, kd)
             entry == [by |-> d, kind |-> "handler", target |-> h, ret |-> sub.res]
         IN IF sub.res = "raise"
            THEN [res |-> "raise", trace |-> <<entry>> \o sub.trace, data |-> sub.data]
            ELSE IF Truthy(sub.res)
            THEN [res |-> "True", trace |-> <<entry>> \o sub.trace, data |-> sub.data]
            ELSE LET rest == CallHandlers(Tail(hs), evs, hds, d, e, arg, ret, sub.data)
                 IN [res |-> rest.res,
                     trace |-> <<entry>> \o sub.trace \o rest.trace,
                     data |-> rest.data]

dispatch_event(evs, hds, d, e, arg, ret, kd) ==
    LET local == CallFunctions(EventsGet(evs[d], e), d, ret)
    IN IF local.hit
       THEN [res |-> "True", trace |-> local.trace, data |-> kd]
       ELSE LET down == CallHandlers(hds[d], evs, hds, d, e, arg, ret, kd)
            IN [res |-> down.res, trace |-> local.trace \o down.trace, data |-> down.data]

\* the dispatchers among d's downstream handlers
Downstream(hds, d) == {hds[d][i] : i \in 1..Len(hds[d])} \cap Dispatchers

\* the dispatchers a dispatch from the dispatchers in frontier can reach
RECURSIVE Reach(_, _, _)
Reach(hds, frontier, seen) ==
    IF frontier \subseteq seen THEN seen
    ELSE LET new == frontier \ seen
         IN Reach(hds, UNION {Downstream(hds, x) : x \in new}, seen \cup new)

\* the callables registered with some dispatcher for some event
Registered(evs) ==
    {evs[d][e][i] : <<d, e, i>> \in
        {t \in Dispatchers \X EventNames \X (1..Cardinality(Callables)) :
            /\ t[2] \in DOMAIN evs[t[1]]
            /\ t[3] <= Len(evs[t[1]][t[2]])}}

\* the number of handlers pushed over all dispatchers
TotalHandlers(hds) ==
    Cardinality({t \in Dispatchers \X (1..MaxHandlers + 1) : t[2] <= Len(hds[t[1]])})

NoCall == [d |-> "", e |-> "", arg |-> NoArg, res |-> "none", trace |-> <<>>]
NoQuery == [key |-> NoArg, value |-> FALSE]

EventInit ==
    /\ events = [d \in Dispatchers |-> EmptyDict]
    /\ handlers = [d \in Dispatchers |-> <<>>]
    /\ regLog = [d \in Dispatchers |-> [e \in EventNames |-> <<>>]]
    /\ pushLog = [d \in Dispatchers |-> <<>>]
    /\ lastCall = NoCall

KeyInit ==
    /\ data = EmptyDict
    /\ lastKeyEvent = [k \in Keys |-> "none"]
    /\ lastQuery = NoQuery

\* dispatcher.add_event(event, func), each callable registered once
AddEvent(d, e, f) ==
    /\ f \notin Registered(events)
    /\ events' = [events EXCEPT ![d] = add_event(@, e, f)]
    /\ regLog' = [regLog EXCEPT ![d][e] = Append(@, f)]
    /\ lastCall' = NoCall
    /\ UNCHANGED <<handlers, pushLog, data, lastKeyEvent, lastQuery>>
    /\ UNCHANGED otherThanEvent

\* dispatcher.push_handler(handler).  The handler graph stays acyclic: a
\* dispatcher that reaches itself downstream recurses without end.
PushHandler(d, h) ==
    /\ TotalHandlers(handlers) < MaxHandlers
    /\ h # d
    /\ h \in Dispatchers => d \notin Reach(handlers, {h}, {})
    /\ handlers' = [handlers EXCEPT ![d] = push_handler(@, h)]
    /\ pushLog' = [pushLog EXCEPT ![d] = Append(@, h)]
    /\ lastCall' = NoCall
    /\ UNCHANGED <<events, regLog, data, lastKeyEvent, lastQuery>>
    /\ UNCHANGED otherThanEvent

\* dispatcher.remove_handler(handler); a call that raises leaves the deque as it
\* was.  pushLog keeps the handlers still pushed, oldest first: the leftmost of
\* the deque is the latest of the log.
RemoveHandler(d, h) ==
    /\ LET r == remove_handler(handlers[d], h)
       IN /\ handlers' = [handlers EXCEPT ![d] = r.handlers]
          /\ pushLog' = [pushLog EXCEPT ![d] =
                            IF r.raised = "" THEN Reverse(DequeRemove(Reverse(@), h)) ELSE @]
    /\ lastCall' = NoCall
    /\ UNCHANGED <<events, regLog, data, lastKeyEvent, lastQuery>>
    /\ UNCHANGED otherThanEvent

\* whether the call delivered the event to the KeyStateHandler
Delivered(trace) ==
    \E i \in 1..Len(trace) :
        /\ trace[i].kind = "handler"
        /\ trace[i].target = KeyHandler
        /\ trace[i].ret # "raise"

\* the history of key events after event e (with argument arg) reached the handler
KeyHistory(hist, e, arg) ==
    CASE e = "on_key_press" -> [hist EXCEPT ![arg] = "press"]
      [] e = "on_key_release" -> [hist EXCEPT ![arg] = "release"]
      [] OTHER -> [k \in Keys |-> "deactivate"]

\* dispatcher.dispatch_event(event, *args), the callables returning ret
Dispatch(d, e, arg, ret) ==
    LET r == dispatch_event(events, handlers, d, e, arg, ret, data)
    IN /\ lastCall' = [d |-> d, e |-> e, arg |-> arg, res |-> r.res, trace |-> r.trace]
       /\ data' = r.data
       /\ lastKeyEvent' = IF Delivered(r.trace) THEN KeyHistory(lastKeyEvent, e, arg)
                          ELSE lastKeyEvent
       /\ UNCHANGED <<events, handlers, regLog, pushLog, lastQuery>>
       /\ UNCHANGED otherThanEvent

EventNext ==
    \/ \E d \in Dispatchers, e \in AppEvents, f \in Callables : AddEvent(d, e, f)
    \/ \E d \in Dispatchers, h \in HandlerRefs : PushHandler(d, h)
    \/ \E d \in Dispatchers, h \in HandlerRefs : RemoveHandler(d, h)
    \/ \E d \in Dispatchers, e \in AppEvents, ret \in [Callables -> PyReturns] :
          \E arg \in EventArgs(e) : Dispatch(d, e, arg, ret)

\* what the application's callables return when nothing handles the event
AllUnhandled == [f \in Callables |-> EVENT_UNHANDLED]

\* the window ("d1") with the KeyStateHandler pushed: window.push_handler(keyboard)
KeyboardInit ==
    /\ events = [d \in Dispatchers |-> EmptyDict]
    /\ handlers = [d \in Dispatchers |-> IF d = "d1" THEN <<KeyHandler>> ELSE <<>>]
    /\ regLog = [d \in Dispatchers |-> [e \in EventNames |-> <<>>]]
    /\ pushLog = [d \in Dispatchers |-> IF d = "d1" THEN <<KeyHandler>> ELSE <<>>]
    /\ lastCall = NoCall

\* the window dispatches a key press, a key release or a deactivation
KeyPress(k) == Dispatch("d1", "on_key_press", k, AllUnhandled)

KeyRelease(k) == Dispatch("d1", "on_key_release", k, AllUnhandled)

Deactivate == Dispatch("d1", "on_deactivate", NoArg, AllUnhandled)

\* the application reads keyboard[k]
Query(k) ==
    LET r == KeyStateHandler_getitem(data, k)
    IN /\ lastQuery' = [key |-> k, value |-> r.value]
       /\ data' = r.data
       /\ UNCHANGED <<lastKeyEvent, events, handlers, regLog, pushLog, lastCall>>
       /\ UNCHANGED otherThanEvent

KeyNext ==
    \/ \E k \in Keys : KeyPress(k)
    \/ \E k \in Keys : KeyRelease(k)
    \/ Deactivate
    \/ \E k \in Keys : Query(k)

-----------------------------------------------------------------------------
(* Claims about the event dispatcher and the key state handler.            *)

\* the calls the dispatcher of the last dispatch_event made itself
OwnCall(x) == x.by = lastCall.d
IsFuncCall(x) == x.kind = "func"
IsHandlerCall(x) == x.kind = "handler"
OwnCalls == SelectSeq(lastCall.trace, OwnCall)
OwnFuncCalls == SelectSeq(OwnCalls, IsFuncCall)
OwnHandlerCalls == SelectSeq(OwnCalls, IsHandlerCall)
Targets(calls) == [i \in 1..Len(calls) |-> calls[i].target]

\* C1: dispatch_event invokes the callables registered for the event most
\* recently registered first, stops at the first truthy return and reports
\* handled without invoking a later callable; only when every local callable
\* returned falsy does it delegate to the downstream handlers, most recently
\* pushed first, stopping at the first that reports handled.
C1_DispatchOrder ==
    lastCall.res # "none" =>
        /\ OwnCalls = OwnFuncCalls \o OwnHandlerCalls
        /\ IsPrefix(Targets(OwnFuncCalls), Reverse(regLog[lastCall.d][lastCall.e]))
        /\ IsPrefix(Targets(OwnHandlerCalls), Reverse(pushLog[lastCall.d]))
        /\ \A i \in 1..Len(OwnCalls) - 1 : OwnCalls[i].ret \in {"None", "False"}
        /\ (\E i \in 1..Len(OwnCalls) : Truthy(OwnCalls[i].ret)) <=> lastCall.res = "True"
        /\ OwnHandlerCalls # <<>> =>
              Len(OwnFuncCalls) = Len(regLog[lastCall.d][lastCall.e])
        /\ lastCall.res = "False" =>
              /\ Len(OwnFuncCalls) = Len(regLog[lastCall.d][lastCall.e])
              /\ Len(OwnHandlerCalls) = Len(pushLog[lastCall.d])

\* A, B, C registered in that order: C is tried, then B handles, A is not invoked;
C1_Witness ==
    /\ lastCall.res = "True"
    /\ regLog[lastCall.d][lastCall.e] = <<"A", "B", "C">>
    /\ Targets(OwnFuncCalls) = <<"C", "B">>
    /\ OwnHandlerCalls = <<>>

\* C2: when no callable and no downstream handler handles the event,
\* dispatch_event returns the falsy unhandled result rather than failing.
C2_UnhandledReported ==
    (/\ lastCall.res # "none"
     /\ \A i \in 1..Len(lastCall.trace) : ~Truthy(lastCall.trace[i].ret))
        => lastCall.res = "False"

\* C4: KeyStateHandler[K] is True exactly when the most recent event that
\* affected K was a press of K (so every key reads False after on_deactivate),
\* and reading a key leaves the stored state as it was.
C4_KeyState ==
    \A k \in Keys :
        LET r == KeyStateHandler_getitem(data, k)
        IN /\ r.value = (lastKeyEvent[k] = "press")
           /\ r.data = data

\* key 1 pressed, then the window deactivated, and key 1 read afterwards
C4_Witness ==
    /\ lastKeyEvent = [k \in Keys |-> "deactivate"]
    /\ lastCall.e = "on_deactivate" /\ lastCall.res = "False"
    /\ lastQuery = [key |-> 1, value |-> FALSE]
    /\ data = EmptyDict

-----------------------------------------------------------------------------
(* kiglent/event.py: class-level events (__init_subclass__, __new__,       *)
(* register_event_type, event_typing).                                     *)
(*                                                                         *)
(* The application's classes: Base(EventDispatcher), Other(EventDispatcher)*)
(* and Child(Base, Mixin, Other), Mixin being a plain class.  The class    *)
(* attribute _class_events refers to a set object (or None); objects are   *)
(* held in setObj so that sharing one object between classes shows.        *)

MaxRegisterCalls == 4    \* at most this many register_event_type calls

Root == "EventDispatcher"
SubClasses == {"Base", "Other", "Child"}
DispatcherClasses == {Root} \cup SubClasses
ClassEventNames == {"on_draw", "on_resize", "on_close", "on_idle"}

\* cls.__bases__
Bases(c) ==
    CASE c = "Base" -> <<Root>>
      [] c = "Other" -> <<Root>>
      [] c = "Child" -> <<"Base", "Mixin", "Other">>
      [] OTHER -> <<>>

\* cls.__mro__ (without object)
Mro(c) ==
    CASE c = "Base" -> <<"Base", Root>>
      [] c = "Other" -> <<"Other", Root>>
      [] c = "Child" -> <<"Child", "Base", "Mixin", "Other", Root>>
      [] OTHER -> <<c>>

\* the methods each class body defines under an event's name
ClassMethods(c) ==
    CASE c = "Base" -> {"on_draw", "on_resize"}
      [] c = "Other" -> {"on_close"}
      [] c = "Child" -> {"on_close"}
      [] OTHER -> {}

\* the methods decorated with @event_typing: func.event_using = False
EventTyping == {<<"Base", "on_resize">>, <<"Child", "on_close">>}

NoMethod == <<"", "">>
NoRef == 0

\* the set object a class's own _class_events = set() creates
OwnSet(c) == CASE c = Root -> 1 [] c = "Base" -> 2 [] c = "Other" -> 3 [] OTHER -> 4
SetIds == {OwnSet(c) : c \in DispatcherClasses}

\* getattr(instance, name): the first class of the MRO that defines name
RECURSIVE Lookup(_, _)
Lookup(mro, name) ==
    IF mro = <<>> THEN NoMethod
    ELSE IF name \in ClassMethods(Head(mro)) THEN <<Head(mro), name>>
    ELSE Lookup(Tail(mro), name)

\* parent._class_events as __init_subclass__ reads it: a class that is no
\* EventDispatcher has no such attribute (AttributeError), EventDispatcher's
\* is None until an event is registered on it (set |= None is a TypeError)
ParentEvents(refs, objs, parent) ==
    IF parent \notin DispatcherClasses THEN [kind |-> "AttributeError", evs |-> {}]
    ELSE IF refs[parent] = NoRef THEN [kind |-> "TypeError", evs |-> {}]
    ELSE [kind |-> "set", evs |-> objs[refs[parent]]]

\* for parent in cls.__bases__: try: cls._class_events |= parent._class_events
\* except TypeError: pass  except AttributeError: pass
RECURSIVE MergeBases(_, _, _, _)
MergeBases(bases, refs, objs, acc) ==
    IF bases = <<>> THEN acc
    ELSE LET p == ParentEvents(refs, objs, Head(bases))
         IN MergeBases(Tail(bases), refs, objs,
                       IF p.kind = "set" THEN acc \cup p.evs ELSE acc)

\* a subclass hook that merges the first base only
init_subclass_first_base(c, refs, objs) ==
    [refs |-> [refs EXCEPT ![c] = OwnSet(c)],
     objs |-> [objs EXCEPT ![OwnSet(c)] = MergeBases(SubSeq(Bases(c), 1, 1), refs, objs, {})]]

\* __init_subclass__: cls._class_events = set(), then the bases merged into it in place
init_subclass(c, refs, objs) ==
    [refs |-> [refs EXCEPT ![c] = OwnSet(c)],
     objs |-> [objs EXCEPT ![OwnSet(c)] = MergeBases(Bases(c), refs, objs, {})]]

\* register_event_type: cls._class_events.add(event); on AttributeError (the
\* attribute is None) cls._class_events = {event}
register_event_type(c, e, refs, objs) ==
    IF refs[c] = NoRef
    THEN [refs |-> [refs EXCEPT ![c] = OwnSet(c)],
          objs |-> [objs EXCEPT ![OwnSet(c)] = {e}]]
    ELSE [refs |-> refs, objs |-> [objs EXCEPT ![refs[c]] = @ \cup {e}]]

\* the events a class declares now: cls._class_events, None read as no events
DeclaredEvents(refs, objs, c) == IF refs[c] = NoRef THEN {} ELSE objs[refs[c]]

\* __new__: instance._events after construction.  For each event of
\* cls._class_events: if hasattr(instance, event) and the attribute's
\* event_using is not False, instance._events[event].appendleft(func)
new_instance(c, refs, objs) ==
    LET wired == {e \in DeclaredEvents(refs, objs, c) :
                     /\ Lookup(Mro(c), e) # NoMethod
                     /\ Lookup(Mro(c), e) \notin EventTyping}
    IN [e \in wired |-> <<Lookup(Mro(c), e)>>]

NoInstance == [cls |-> "", events |-> EmptyDict, declared |-> {}]

ClassInit ==
    /\ defined = {}
    /\ classRef = [c \in DispatcherClasses |-> NoRef]
    /\ setObj = [o \in SetIds |-> {}]
    /\ declaredAtDef = [c \in SubClasses |-> {}]
    /\ inst = NoInstance
    /\ registerCalls = 0

\* the class statement of c runs: class c(bases...)
DefineClass(c) ==
    /\ c \notin defined
    /\ \A i \in 1..Len(Bases(c)) : Bases(c)[i] \in SubClasses => Bases(c)[i] \in defined
    /\ LET r == init_subclass(c, classRef, setObj)
       IN /\ classRef' = r.refs
          /\ setObj' = r.objs
    /\ defined' = defined \cup {c}
    /\ declaredAtDef' = [declaredAtDef EXCEPT ![c] =
           UNION {DeclaredEvents(classRef, setObj, Bases(c)[i]) :
                     i \in {j \in 1..Len(Bases(c)) : Bases(c)[j] \in DispatcherClasses}}]
    /\ UNCHANGED <<inst, registerCalls>>
    /\ UNCHANGED otherThanClass

\* c.register_event_type(e)
RegisterEventType(c, e) ==
    /\ c = Root \/ c \in defined
    /\ registerCalls < MaxRegisterCalls
    /\ LET r == register_event_type(c, e, classRef, setObj)
       IN /\ classRef' = r.refs
          /\ setObj' = r.objs
    /\ registerCalls' = registerCalls + 1
    /\ UNCHANGED <<defined, declaredAtDef, inst>>
    /\ UNCHANGED otherThanClass

\* c(): a new instance
NewInstance(c) ==
    /\ c = Root \/ c \in defined
    /\ inst' = [cls |-> c,
                events |-> new_instance(c, classRef, setObj),
                declared |-> DeclaredEvents(classRef, setObj, c)]
    /\ UNCHANGED <<defined, classRef, setObj, declaredAtDef, registerCalls>>
    /\ UNCHANGED otherThanClass

ClassNext ==
    \/ \E c \in SubClasses : DefineClass(c)
    \/ \E c \in DispatcherClasses, e \in ClassEventNames : RegisterEventType(c, e)
    \/ \E c \in DispatcherClasses : NewInstance(c)

-----------------------------------------------------------------------------
(* Claims about class-level events.                                        *)

\* a subclass holds every event its bases had declared when it was defined
C8_Inherited ==
    \A c \in defined : declaredAtDef[c] \subseteq DeclaredEvents(classRef, setObj, c)

\* an instance has exactly its class's declared events wired for which a
\* same-named method exists that is not marked with event_typing, each to
\* that bound method
C8_Wired ==
    inst.cls # "" =>
        \A e \in ClassEventNames :
            LET meth == Lookup(Mro(inst.cls), e)
            IN IF e \in inst.declared /\ meth # NoMethod /\ meth \notin EventTyping
               THEN e \in DOMAIN inst.events /\ inst.events[e] = <<meth>>
               ELSE e \notin DOMAIN inst.events

\* registering an event on a class changes the declared events of no other class
C8_BasesUntouched ==
    \A c \in DispatcherClasses :
        (\E e \in ClassEventNames : RegisterEventType(c, e)) =>
            \A b \in DispatcherClasses \ {c} :
                DeclaredEvents(classRef', setObj', b) = DeclaredEvents(classRef, setObj, b)

\* C8: a subclass of EventDispatcher participates in every event its base
\* classes had declared when it was defined, declaring further events on it
\* changes no base class, and a new instance has the same-named method of each
\* class-declared event registered unless the method is marked with event_typing.
C8_ClassEvents == [](C8_Inherited /\ C8_Wired) /\ [][C8_BasesUntouched]_vars

\* Child was defined after Base and Other had declared events, a further event
\* was declared on Child alone, and a Child instance has on_draw wired to
\* Base.on_draw while the marked on_resize and on_close are not wired
C8_Witness ==
    /\ "Child" \in defined
    /\ declaredAtDef["Child"] = {"on_draw", "on_resize", "on_close"}
    /\ inst.cls = "Child"
    /\ inst.declared = {"on_draw", "on_resize", "on_close", "on_idle"}
    /\ DeclaredEvents(classRef, setObj, "Base") = {"on_draw", "on_resize"}
    /\ inst.events = [e \in {"on_draw"} |-> <<<<"Base", "on_draw">>>>]

-----------------------------------------------------------------------------
(* shapes/__init__.py: ShapeBase's ownership of its vertex list.           *)
(*                                                                         *)
(* A shape is the record of its fields; None is 0.  Vertex lists are       *)
(* numbered in the order _create_vertex_list makes them, and released      *)
(* counts the delete() calls each vertex list has received.  Batch.migrate *)
(* and Batch.update_shader succeed and keep the vertex list object.        *)

MaxLists == 4            \* at most this many vertex lists are created

None == 0
Batches == {1, 2}
Programs == {1, 2}
BlendModes == {1, 2}
Groups == {1, 2}
ListIds == 1..MaxLists

\* VertexList.delete()
vertex_list_delete(heap, id) ==
    [heap EXCEPT !.released = [@ EXCEPT ![id] = @ + 1]]

\* _create_vertex_list: self._vertex_list = self._program.vertex_list(...)
create_vertex_list(s, heap) ==
    [shape |-> [s EXCEPT !.vertex_list = heap.created + 1],
     heap |-> [heap EXCEPT !.created = @ + 1],
     outcome |-> "ok"]

\* self._vertex_list.delete(); self._create_vertex_list()
\* (None has no delete: AttributeError, the assignments made so far stay)
Recreate(s, heap) ==
    IF s.vertex_list = None
    THEN [shape |-> s, heap |-> heap, outcome |-> "AttributeError"]
    ELSE create_vertex_list(s, vertex_list_delete(heap, s.vertex_list))

\* ShapeBase.__init__
shape_init(batch, group, program) ==
    create_vertex_list([vertex_list |-> None, batch |-> batch, user_group |-> group,
                        program |-> program, blend |-> 1],
                       [released |-> [i \in ListIds |-> 0], created |-> 0])

\* the blend_mode setter
set_blend_mode(s, heap, modes) ==
    IF modes = s.blend THEN [shape |-> s, heap |-> heap, outcome |-> "return"]
    ELSE LET s1 == [s EXCEPT !.blend = modes]
         IN IF s1.batch # None
            THEN [shape |-> s1, heap |-> heap, outcome |-> "ok"]
            ELSE Recreate(s1, heap)

\* the program setter; domain_kept is what Batch.update_shader returns
set_program(s, heap, program, domain_kept) ==
    IF s.program = program THEN [shape |-> s, heap |-> heap, outcome |-> "return"]
    ELSE LET s1 == [s EXCEPT !.program = program]
         IN IF s1.batch # None /\ domain_kept
            THEN [shape |-> s1, heap |-> heap, outcome |-> "return"]
            ELSE Recreate(s1, heap)

\* the group setter
set_group(s, heap, group) ==
    IF s.user_group = group THEN [shape |-> s, heap |-> heap, outcome |-> "return"]
    ELSE [shape |-> [s EXCEPT !.user_group = group], heap |-> heap, outcome |-> "ok"]

\* the batch setter
set_batch(s, heap, batch) ==
    IF s.batch = batch THEN [shape |-> s, heap |-> heap, outcome |-> "return"]
    ELSE IF batch # None /\ s.batch # None
    THEN [shape |-> [s EXCEPT !.batch = batch], heap |-> heap, outcome |-> "ok"]
    ELSE IF s.vertex_list = None
    THEN [shape |-> s, heap |-> heap, outcome |-> "AttributeError"]
    ELSE create_vertex_list([s EXCEPT !.batch = batch],
                            vertex_list_delete(heap, s.vertex_list))

\* a delete() that releases but keeps the reference
delete_keeping_reference(s, heap) ==
    IF s.vertex_list # None
    THEN [shape |-> s, heap |-> vertex_list_delete(heap, s.vertex_list), outcome |-> "ok"]
    ELSE [shape |-> s, heap |-> heap, outcome |-> "ok"]

\* delete() and __del__: release and null the reference, if there is one
delete(s, heap) ==
    IF s.vertex_list # None
    THEN [shape |-> [s EXCEPT !.vertex_list = None],
          heap |-> vertex_list_delete(heap, s.vertex_list), outcome |-> "ok"]
    ELSE [shape |-> s, heap |-> heap, outcome |-> "ok"]

NewShapes ==
    {shape_init(b, g, p) : b \in Batches \cup {None}, g \in Groups \cup {None}, p \in Programs}

ShapeInit ==
    /\ shape = shape_init(None, None, 1).shape
    /\ vlists = shape_init(None, None, 1).heap
    /\ finalized = FALSE
    /\ shapeOp = [op |-> "__init__", outcome |-> "ok", had_list |-> FALSE]

\* the shape as any constructor call leaves it
ShapeInitAny ==
    /\ \E r \in NewShapes : shape = r.shape /\ vlists = r.heap
    /\ finalized = FALSE
    /\ shapeOp = [op |-> "__init__", outcome |-> "ok", had_list |-> FALSE]

ShapeStep(op, r) ==
    /\ ~finalized
    /\ shape' = r.shape
    /\ vlists' = r.heap
    /\ shapeOp' = [op |-> op, outcome |-> r.outcome, had_list |-> shape.vertex_list # None]
    /\ UNCHANGED otherThanShape

SetBlendMode(modes) ==
    /\ vlists.created < MaxLists
    /\ ShapeStep("blend_mode", set_blend_mode(shape, vlists, modes))
    /\ UNCHANGED finalized

SetProgram(program, domain_kept) ==
    /\ vlists.created < MaxLists
    /\ ShapeStep("program", set_program(shape, vlists, program, domain_kept))
    /\ UNCHANGED finalized

SetGroup(group) ==
    /\ ShapeStep("group", set_group(shape, vlists, group))
    /\ UNCHANGED finalized

SetBatch(batch) ==
    /\ vlists.created < MaxLists
    /\ ShapeStep("batch", set_batch(shape, vlists, batch))
    /\ UNCHANGED finalized

Delete ==
    /\ ShapeStep("delete", delete(shape, vlists))
    /\ UNCHANGED finalized

\* __del__: the finalizer runs once, when nothing refers to the shape any more
Finalize ==
    /\ ShapeStep("__del__", delete(shape, vlists))
    /\ finalized' = TRUE

ShapeNext ==
    \/ \E modes \in BlendModes : SetBlendMode(modes)
    \/ \E p \in Programs, k \in BOOLEAN : SetProgram(p, k)
    \/ \E g \in Groups \cup {None} : SetGroup(g)
    \/ \E b \in Batches \cup {None} : SetBatch(b)
    \/ Delete
    \/ Finalize

-----------------------------------------------------------------------------
(* Claims about the shapes' vertex lists.                                  *)

Created == 1..vlists.created

\* no vertex list has been released twice
C3_NoDoubleRelease == \A id \in Created : vlists.released[id] <= 1

\* the shape refers to the one vertex list not yet released, or to none
C3_OwnsLive ==
    \A id \in Created : (vlists.released[id] = 0) <=> (shape.vertex_list = id)

\* after finalization every vertex list the shape created has been released
C3_NoLeak == finalized => \A id \in Created : vlists.released[id] = 1

\* delete() and the finalizer release nothing when the reference is None
C3_SecondReleasesNothing ==
    (Delete \/ Finalize) /\ shape.vertex_list = None => vlists'.released = vlists.released

\* C3: over any sequence of blend_mode, program, group and batch changes,
\* delete() calls and finalization, each vertex list the shape creates is
\* released at most once, a delete() or finalization that finds the reference
\* nulled releases nothing, and after finalization none is left unreleased.
C3_ReleasedOnce ==
    [](C3_NoDoubleRelease /\ C3_OwnsLive /\ C3_NoLeak) /\ [][C3_SecondReleasesNothing]_vars

\* the shape recreated its vertex list twice, was deleted, and was then
\* finalized: three lists, each released once
C3_Witness ==
    /\ finalized
    /\ vlists.created = 3
    /\ shapeOp = [op |-> "__del__", outcome |-> "ok", had_list |-> FALSE]
    /\ \A id \in 1..3 : vlists.released[id] = 1

-----------------------------------------------------------------------------
(* graphics/groups.py: equality and hashing of rendering groups.           *)
(*                                                                         *)
(* A group is the record of its fields; a parent is a group or NoGroup     *)
(* (None).  Two groups, a and b, are built from bounded field values, the  *)
(* setters of the transform groups change a, and Compare evaluates a == b, *)
(* hash(a) and hash(b).                                                    *)

MaxOrder == 1            \* orders range over 0..MaxOrder

Orders == 0..MaxOrder
Windows == {1, 2}
Coords == {0, 1}
Factors == {1, 2}
Angles == {0, 90}
TexTargets == {1, 2}
TexIds == {1, 2}
TransformClasses == {"TranslationGroup", "ScaleGroup", "RotationGroup"}

NoGroup == [cls |-> "None"]

PlainGroups(parents) ==
    [cls : {"Group"}, order : Orders, parent : parents]
TextureGroups(parents) ==
    [cls : {"TextureGroup"}, order : Orders, parent : parents, target : TexTargets, id : TexIds]
TranslationGroups(parents) ==
    [cls : {"TranslationGroup"}, order : Orders, parent : parents, window : Windows,
     x : Coords, y : Coords]
ScaleGroups(parents) ==
    [cls : {"ScaleGroup"}, order : Orders, parent : parents, window : Windows,
     scale_x : Factors, scale_y : Factors]
RotationGroups(parents) ==
    [cls : {"RotationGroup"}, order : Orders, parent : parents, window : Windows,
     rotation : Angles]

\* the parents used: None, a plain group, or a translation group at the origin
\* or moved along x
ParentGroups ==
    {NoGroup} \cup PlainGroups({NoGroup})
              \cup {g \in TranslationGroups({NoGroup}) : g.order = 0 /\ g.window = 1 /\ g.y = 0}

ComparedGroups ==
    TextureGroups(ParentGroups) \cup TranslationGroups(ParentGroups)
        \cup ScaleGroups(ParentGroups) \cup RotationGroups(ParentGroups)

\* hash(n) of a small non-negative int is n
HashInt(n) == <<"int", n>>

\* hash(None)
HashNone == <<"None">>

\* hash(window): object.__hash__, by identity
HashWindow(w) == <<"object", w>>

\* hash(tuple) of already hashed items.  CPython mixes the item hashes, in
\* order, into 64 bits; the value is held as the sequence of the item hashes:
\* equal for equal item hashes in the same order, and different otherwise, as
\* the 64-bit values are for every pair of tuples the groups of the model hash
HashTuple(items) == <<"tuple">> \o items

RECURSIVE PyHash(_)
\* Group.__hash__: hash((self._order, self.parent))
Group_hash(g) == HashTuple(<<HashInt(g.order), PyHash(g.parent)>>)
\* TextureGroup.__hash__: hash((target, id, order, parent))
TextureGroup_hash(g) ==
    HashTuple(<<HashInt(g.target), HashInt(g.id), HashInt(g.order), PyHash(g.parent)>>)
\* TranslationGroup / ScaleGroup / RotationGroup.__hash__:
\* hash((self._order, self.parent, self.window))
TransformGroup_hash(g) ==
    HashTuple(<<HashInt(g.order), PyHash(g.parent), HashWindow(g.window)>>)

PyHash(g) ==
    CASE g.cls = "None" -> HashNone
      [] g.cls = "Group" -> Group_hash(g)
      [] g.cls = "TextureGroup" -> TextureGroup_hash(g)
      [] OTHER -> TransformGroup_hash(g)

RECURSIVE PyEq(_, _)
\* Group.__eq__
Group_eq(a, b) ==
    a.cls = b.cls /\ a.order = b.order /\ PyEq(a.parent, b.parent)
\* TextureGroup.__eq__
TextureGroup_eq(a, b) ==
    /\ a.cls = b.cls
    /\ a.target = b.target
    /\ a.id = b.id
    /\ a.order = b.order
    /\ PyEq(a.parent, b.parent)
\* TranslationGroup.__eq__, ScaleGroup.__eq__, RotationGroup.__eq__
TransformGroup_eq(a, b) ==
    /\ a.cls = b.cls
    /\ a.order = b.order
    /\ a.window = b.window
    /\ PyEq(a.parent, b.parent)

\* a == b: None equals only None; a group's __eq__ is False on another class
PyEq(a, b) ==
    CASE a.cls = "None" \/ b.cls = "None" -> a.cls = b.cls
      [] a.cls = "Group" -> Group_eq(a, b)
      [] a.cls = "TextureGroup" -> TextureGroup_eq(a, b)
      [] OTHER -> TransformGroup_eq(a, b)

\* the subtype-specific transform state of a transform group
TransformState(g) ==
    CASE g.cls = "TranslationGroup" -> <<g.x, g.y>>
      [] g.cls = "ScaleGroup" -> <<g.scale_x, g.scale_y>>
      [] g.cls = "RotationGroup" -> <<g.rotation>>
      [] OTHER -> <<>>

NoCompare == [done |-> FALSE, eq |-> FALSE, hash_a |-> <<>>, hash_b |-> <<>>]

GroupInit ==
    /\ ga = NoGroup
    /\ gb = NoGroup
    /\ cmp = NoCompare

\* two groups as their constructors leave them
GroupInitAny ==
    /\ ga \in ComparedGroups
    /\ gb \in ComparedGroups
    /\ cmp = NoCompare

\* a == b, hash(a), hash(b)
Compare ==
    /\ ~cmp.done
    /\ cmp' = [done |-> TRUE, eq |-> PyEq(ga, gb), hash_a |-> PyHash(ga), hash_b |-> PyHash(gb)]
    /\ UNCHANGED <<ga, gb>>
    /\ UNCHANGED otherThanGroup

SetField(cls, g) ==
    /\ ga.cls = cls
    /\ g # ga
    /\ ga' = g
    /\ cmp' = NoCompare
    /\ UNCHANGED gb
    /\ UNCHANGED otherThanGroup

\* the x and y setters of TranslationGroup
SetX(x) == ga.cls = "TranslationGroup" /\ SetField("TranslationGroup", [ga EXCEPT !.x = x])
SetY(y) == ga.cls = "TranslationGroup" /\ SetField("TranslationGroup", [ga EXCEPT !.y = y])
\* the scale_x and scale_y setters of ScaleGroup
SetScaleX(f) == ga.cls = "ScaleGroup" /\ SetField("ScaleGroup", [ga EXCEPT !.scale_x = f])
SetScaleY(f) == ga.cls = "ScaleGroup" /\ SetField("ScaleGroup", [ga EXCEPT !.scale_y = f])
\* the rotation setter of RotationGroup
SetRotation(r) == ga.cls = "RotationGroup" /\ SetField("RotationGroup", [ga EXCEPT !.rotation = r])

GroupNext ==
    \/ Compare
    \/ \E x \in Coords : SetX(x)
    \/ \E y \in Coords : SetY(y)
    \/ \E f \in Factors : SetScaleX(f)
    \/ \E f \in Factors : SetScaleY(f)
    \/ \E r \in Angles : SetRotation(r)

-----------------------------------------------------------------------------
(* Claims about group equality.                                            *)

BothTransform == cmp.done /\ ga.cls \in TransformClasses /\ gb.cls \in TransformClasses
BothTexture == cmp.done /\ ga.cls = "TextureGroup" /\ gb.cls = "TextureGroup"

\* C5: two transform groups (TranslationGroup, ScaleGroup, RotationGroup) that
\* compare equal are of the same class with the same order, parent, window and
\* the same transform state (x/y, scale_x/scale_y, rotation), and hash identically.
C5_TransformEquality ==
    BothTransform /\ cmp.eq =>
        /\ ga.cls = gb.cls
        /\ ga.order = gb.order
        /\ ga.window = gb.window
        /\ ga.parent = gb.parent
        /\ TransformState(ga) = TransformState(gb)
        /\ cmp.hash_a = cmp.hash_b

\* C6: two TextureGroups are equal exactly when their texture target, texture
\* id, order and parent are the same, and equal ones hash identically.
C6_TextureEquality ==
    BothTexture =>
        /\ cmp.eq <=> /\ ga.target = gb.target
                      /\ ga.id = gb.id
                      /\ ga.order = gb.order
                      /\ ga.parent = gb.parent
        /\ cmp.eq => cmp.hash_a = cmp.hash_b

-----------------------------------------------------------------------------
(* kiglent/matrix.py and graphics/groups.py: the transform groups' effect  *)
(* on window.projection.                                                   *)
(*                                                                         *)
(* A Mat4 is its 16 entries in the order the source stores them (column    *)
(* first).  Entries are integers; angles are whole quarter turns, whose    *)
(* cosine and sine are taken as the exact values 0, 1 and -1.  chain is a  *)
(* parent chain of transform groups on one window, root first.             *)

MaxChain == 2            \* at most this many groups in the parent chain

IdentityMat4 == <<1, 0, 0, 0,  0, 1, 0, 0,  0, 0, 1, 0,  0, 0, 0, 1>>
\* a projection that is not diagonal
ShearMat4 == <<1, 1, 0, 0,  0, 1, 0, 0,  0, 0, 1, 0,  0, 0, 0, 1>>
Projections == {IdentityMat4, ShearMat4}
QuarterTurns == {0, 1}

\* math.cos and math.sin of q quarter turns
Cos(q) == CASE q % 4 = 0 -> 1 [] q % 4 = 2 -> -1 [] OTHER -> 0
Sin(q) == CASE q % 4 = 1 -> 1 [] q % 4 = 3 -> -1 [] OTHER -> 0

\* Mat4.from_scale
from_scale(v) ==
    <<v[1], 0, 0, 0,  0, v[2], 0, 0,  0, 0, v[3], 0,  0, 0, 0, 1>>

\* Mat4.from_translation
from_translation(v) ==
    <<1, 0, 0, 0,  0, 1, 0, 0,  0, 0, 1, 0,  v[1], v[2], v[3], 1>>

\* Mat4.rotate_z
rotate_z(m, angle) ==
    LET c == Cos(angle)
        s == Sin(angle)
    IN <<m[1] * c + m[5] * s, m[2] * c + m[6] * s,
         m[3] * c + m[7] * s, m[4] * c + m[8] * s,
         (-m[1]) * s + m[5] * c, (-m[2]) * s + m[6] * c,
         (-m[3]) * s + m[7] * c, (-m[4]) * s + m[8] * c,
         m[9], m[10], m[11], m[12],
         m[13], m[14], m[15], m[16]>>

\* Mat4.scale
scale(m, v) ==
    <<m[1] * v[1], m[2], m[3], m[4],
      m[5], m[6] * v[2], m[7], m[8],
      m[9], m[10], m[11] * v[3], m[12],
      m[13], m[14], m[15], m[16]>>

\* Mat4.translate
translate(m, v) ==
    <<m[1], m[2], m[3], m[4],
      m[5], m[6], m[7], m[8],
      m[9], m[10], m[11], m[12],
      m[1] * v[1] + m[5] * v[2] + m[9] * v[3] + m[13],
      m[2] * v[1] + m[6] * v[2] + m[10] * v[3] + m[14],
      m[3] * v[1] + m[7] * v[2] + m[11] * v[3] + m[15],
      m[4] * v[1] + m[8] * v[2] + m[12] * v[3] + m[16]>>

\* Mat4.__matmul__ with a Mat4: entry (row r, column c), stored at 4 * (c - 1) + r
matmul(a, b) ==
    [i \in 1..16 |->
        LET r == ((i - 1) % 4) + 1
            c == ((i - 1) \div 4) + 1
        IN a[r] * b[4 * (c - 1) + 1] + a[4 + r] * b[4 * (c - 1) + 2]
           + a[8 + r] * b[4 * (c - 1) + 3] + a[12 + r] * b[4 * (c - 1) + 4]]

\* the transform groups as constructed on a window whose projection is p:
\* _vec3 = (x, y, 0.0) or (scale_x, scale_y, 1.0), _projection = window.projection
NewTransformGroups(p) ==
    {[cls |-> "TranslationGroup", vec3 |-> <<x, y, 0>>, rotation |-> 0, projection |-> p] :
        x \in Coords, y \in Coords}
    \cup {[cls |-> "ScaleGroup", vec3 |-> <<fx, fy, 1>>, rotation |-> 0, projection |-> p] :
        fx \in Factors, fy \in Factors}
    \cup {[cls |-> "RotationGroup", vec3 |-> <<0, 0, 0>>, rotation |-> q, projection |-> p] :
        q \in QuarterTurns}

\* the new projection a group's set_state computes from the current one
Transformed(g, p) ==
    CASE g.cls = "TranslationGroup" -> translate(p, g.vec3)
      [] g.cls = "ScaleGroup" -> scale(p, g.vec3)
      [] OTHER -> rotate_z(p, g.rotation)

\* set_state: self._projection = window.projection;
\* window.projection = projection.translate / scale / rotate_z
set_state(g, p) ==
    [group |-> [g EXCEPT !.projection = p], projection |-> Transformed(g, p)]

\* unset_state: window.projection = self._projection
unset_state(g, p) == g.projection

\* set_state_recursive on the group at position n: the parent first, then the group
RECURSIVE set_state_recursive(_, _, _)
set_state_recursive(groups, n, p) ==
    IF n = 0 THEN [chain |-> groups, projection |-> p]
    ELSE LET up == set_state_recursive(groups, n - 1, p)
             r == set_state(up.chain[n], up.projection)
         IN [chain |-> [up.chain EXCEPT ![n] = r.group], projection |-> r.projection]

\* unset_state_recursive on the group at position n: the group first, then the parent
RECURSIVE unset_state_recursive(_, _, _)
unset_state_recursive(groups, n, p) ==
    IF n = 0 THEN p
    ELSE unset_state_recursive(groups, n - 1, unset_state(groups[n], p))

StackInit ==
    /\ projection = IdentityMat4
    /\ chain = <<>>
    /\ original = IdentityMat4
    /\ phase = "idle"

\* a window with some projection and a chain of groups constructed on it
StackInitAny ==
    /\ projection \in Projections
    /\ \E n \in 1..MaxChain : chain \in [1..n -> NewTransformGroups(projection)]
    /\ original = projection
    /\ phase = "idle"

\* innermost.set_state_recursive()
SetStateRecursive ==
    /\ phase # "set"
    /\ LET r == set_state_recursive(chain, Len(chain), projection)
       IN /\ chain' = r.chain
          /\ projection' = r.projection
    /\ original' = projection
    /\ phase' = "set"
    /\ UNCHANGED otherThanStack

\* innermost.unset_state_recursive()
UnsetStateRecursive ==
    /\ phase = "set"
    /\ projection' = unset_state_recursive(chain, Len(chain), projection)
    /\ phase' = "restored"
    /\ UNCHANGED <<chain, original>>
    /\ UNCHANGED otherThanStack

StackNext ==
    \/ SetStateRecursive
    \/ UnsetStateRecursive

-----------------------------------------------------------------------------
(* Claims about the transform groups' projection stack.                    *)

\* the matrix of a group's transform
TransformMatrix(g) ==
    CASE g.cls = "TranslationGroup" -> from_translation(g.vec3)
      [] g.cls = "ScaleGroup" -> from_scale(g.vec3)
      [] OTHER -> rotate_z(IdentityMat4, g.rotation)

\* p with the transforms of the first n groups applied, parent before child
RECURSIVE Applied(_, _, _)
Applied(groups, n, p) ==
    IF n = 0 THEN p
    ELSE matmul(Applied(groups, n - 1, p), TransformMatrix(groups[n]))

\* after unset_state_recursive the projection is the one before set_state_recursive
C7_Restored == phase = "restored" => projection = original

\* between the calls the projection is the original with each group's
\* transform applied, parent before child
C7_Composed == phase = "set" => projection = Applied(chain, Len(chain), original)

\* C7: for a parent chain of TranslationGroup / ScaleGroup / RotationGroup
\* instances on one window, set_state_recursive() followed by
\* unset_state_recursive() leaves window.projection as it was, and between the
\* calls the projection is the original with each group's transform applied in
\* parent-to-child order.
C7_SaveRestoreStack == C7_Restored /\ C7_Composed

-----------------------------------------------------------------------------
(* gl/lib_agl.py and kiglent/libs/egl/lib.py: binding native entry points. *)
(*                                                                         *)
(* A loaded library is the set of symbols it exports; procAddr is the set  *)
(* of names for which eglGetProcAddress returns a non-null address.  A     *)
(* binding is a record: a library function with its restype and argtypes,  *)
(* a function pointer cast from an address, or the missing_function        *)
(* placeholder; kind "raise" stands for an exception leaving the loader.   *)

Symbols == {"glClear", "eglQueryDevicesEXT"}
ResTypes == {"c_int", "c_void_p"}
ArgTypes == {<<>>, <<"c_uint">>}
Requires == {"None", "OpenGL 4.3"}
Suggestions == {"None", "glClearBuffer"}
Apis == {"GL", "AGL", "EGL"}

\* getattr(lib, name): the exported function, or AttributeError
GetAttr(lib, name) == IF name \in lib THEN "function" ELSE "AttributeError"

\* the placeholder missing_function(name, requires, suggestions) returns
missing_function(name, requires, suggestions) ==
    [kind |-> "missing_function", name |-> name, requires |-> requires,
     suggestions |-> suggestions]

\* func.restype = restype; func.argtypes = argtypes (and decorate_function for GL / AGL)
BoundFunction(name, restype, argtypes, decorated) ==
    [kind |-> "function", name |-> name, restype |-> restype, argtypes |-> argtypes,
     decorated |-> decorated]

\* link_GL
link_GL(lib, name, restype, argtypes, requires, suggestions) ==
    IF GetAttr(lib, name) = "AttributeError"
    THEN missing_function(name, requires, suggestions)
    ELSE BoundFunction(name, restype, argtypes, TRUE)

\* link_AGL
link_AGL(lib, name, restype, argtypes, requires, suggestions) ==
    IF GetAttr(lib, name) = "AttributeError"
    THEN missing_function(name, requires, suggestions)
    ELSE BoundFunction(name, restype, argtypes, TRUE)

\* eglGetProcAddress(bname): the address, null when the name is unknown
eglGetProcAddress(known, name) == IF name \in known THEN "address" ELSE "NULL"

\* a link_EGL without the eglGetProcAddress query
link_EGL_no_query(lib, known, name, restype, argtypes, requires, suggestions) ==
    IF GetAttr(lib, name) = "AttributeError"
    THEN missing_function(name, requires, suggestions)
    ELSE BoundFunction(name, restype, argtypes, FALSE)

\* link_EGL: on AttributeError the address is queried; a non-null address is
\* cast to CFUNCTYPE(restype, *argtypes); otherwise the placeholder
link_EGL(lib, known, name, restype, argtypes, requires, suggestions) ==
    IF GetAttr(lib, name) = "AttributeError"
    THEN IF eglGetProcAddress(known, name) # "NULL"
         THEN [kind |-> "cast", name |-> name, ftype |-> <<restype>> \o argtypes]
         ELSE missing_function(name, requires, suggestions)
    ELSE BoundFunction(name, restype, argtypes, FALSE)

NoLink == [api |-> "", name |-> "", restype |-> "", argtypes |-> <<>>, requires |-> "",
           suggestions |-> "", result |-> [kind |-> "none"]]

LinkInit ==
    /\ libs = [a \in Apis |-> {}]
    /\ procAddr = {}
    /\ lastLink = NoLink

\* the libraries as load_library found them
LinkInitAny ==
    /\ libs \in [Apis -> SUBSET Symbols]
    /\ procAddr \in SUBSET Symbols
    /\ lastLink = NoLink

LinkCall(api, name, restype, argtypes, requires, suggestions, result) ==
    [api |-> api, name |-> name, restype |-> restype, argtypes |-> argtypes,
     requires |-> requires, suggestions |-> suggestions, result |-> result]

LinkGL(name, restype, argtypes, requires, suggestions) ==
    /\ lastLink' = LinkCall("GL", name, restype, argtypes, requires, suggestions,
                            link_GL(libs["GL"], name, restype, argtypes, requires, suggestions))
    /\ UNCHANGED <<libs, procAddr>>
    /\ UNCHANGED otherThanLink

LinkAGL(name, restype, argtypes, requires, suggestions) ==
    /\ lastLink' = LinkCall("AGL", name, restype, argtypes, requires, suggestions,
                            link_AGL(libs["AGL"], name, restype, argtypes, requires, suggestions))
    /\ UNCHANGED <<libs, procAddr>>
    /\ UNCHANGED otherThanLink

LinkEGL(name, restype, argtypes, requires, suggestions) ==
    /\ lastLink' = LinkCall("EGL", name, restype, argtypes, requires, suggestions,
                            link_EGL(libs["EGL"], procAddr, name, restype, argtypes,
                                     requires, suggestions))
    /\ UNCHANGED <<libs, procAddr>>
    /\ UNCHANGED otherThanLink

LinkNext ==
    \E name \in Symbols, restype \in ResTypes, argtypes \in ArgTypes,
       requires \in Requires, suggestions \in Suggestions :
        \/ LinkGL(name, restype, argtypes, requires, suggestions)
        \/ LinkAGL(name, restype, argtypes, requires, suggestions)
        \/ LinkEGL(name, restype, argtypes, requires, suggestions)

-----------------------------------------------------------------------------
(* Claims about the binding loaders.                                       *)

LinkMade == lastLink.api # ""
LinkAbsent == LinkMade /\ lastLink.name \notin libs[lastLink.api]
LinkPlaceholder ==
    [kind |-> "missing_function", name |-> lastLink.name, requires |-> lastLink.requires,
     suggestions |-> lastLink.suggestions]

\* C9: link_GL, link_AGL and link_EGL never raise for a symbol the library
\* lacks.  link_GL and link_AGL return the missing_function placeholder of
\* (name, requires, suggestions); link_EGL returns the pointer cast from
\* eglGetProcAddress's address when that is non-null and the placeholder only
\* when it is null; a symbol the library has is returned with restype and
\* argtypes set.
C9_LinkFallback ==
    LinkMade =>
        /\ lastLink.result.kind # "raise"
        /\ LinkAbsent /\ lastLink.api \in {"GL", "AGL"} => lastLink.result = LinkPlaceholder
        /\ LinkAbsent /\ lastLink.api = "EGL" /\ lastLink.name \in procAddr =>
              /\ lastLink.result.kind = "cast"
              /\ lastLink.result.name = lastLink.name
              /\ lastLink.result.ftype = <<lastLink.restype>> \o lastLink.argtypes
        /\ LinkAbsent /\ lastLink.api = "EGL" /\ lastLink.name \notin procAddr =>
              lastLink.result = LinkPlaceholder
        /\ ~LinkAbsent =>
              /\ lastLink.result.kind = "function"
              /\ lastLink.result.name = lastLink.name
              /\ lastLink.result.restype = lastLink.restype
              /\ lastLink.result.argtypes = lastLink.argtypes

\* link_EGL bound a name the EGL library lacks but eglGetProcAddress knows
C9_Witness ==
    /\ lastLink.api = "EGL"
    /\ lastLink.name = "eglQueryDevicesEXT"
    /\ libs["EGL"] = {}
    /\ procAddr = {"eglQueryDevicesEXT"}
    /\ lastLink.result.kind = "cast"

-----------------------------------------------------------------------------
(* shapes/rectangle.py: the colours of a BorderedRectangle.                *)
(*                                                                         *)
(* A colour value is a tuple of 3 (RGB) or 4 (RGBA) integers; an argument  *)
(* left out (None) is the empty tuple, an opacity left out is NoOpacity.   *)

RgbValues == {<<255, 0, 0>>, <<0, 0, 255>>}
Opacities == {0, 128, 255}
RgbaValues == {c \o <<a>> : c \in RgbValues, a \in Opacities}
ColorValues == RgbValues \cup RgbaValues
NoColor == <<>>
NoOpacity == -1

Rgb(c) == SubSeq(c, 1, 3)

\* a constructor that takes the border's alpha before the fill's
BorderedRectangle_init_border_first(color, border_color) ==
    LET fill_a == SubSeq(color, 4, Len(color))
        border_a == SubSeq(border_color, 4, Len(border_color))
        alpha == IF border_a # <<>> THEN border_a[1]
                 ELSE IF fill_a # <<>> THEN fill_a[1] ELSE 255
    IN [raised |-> "", rgba |-> Rgb(color) \o <<alpha>>,
        border_rgba |-> Rgb(border_color) \o <<alpha>>]

\* BorderedRectangle.__init__: the alpha both colours get, or ValueError when
\* both carry an alpha and the two differ
BorderedRectangle_init(color, border_color) ==
    LET fill_a == SubSeq(color, 4, Len(color))
        border_a == SubSeq(border_color, 4, Len(border_color))
        alpha == IF fill_a # <<>> THEN fill_a[1]
                 ELSE IF border_a # <<>> THEN border_a[1] ELSE 255
    IN IF fill_a # <<>> /\ border_a # <<>> /\ fill_a[1] # border_a[1]
       THEN [raised |-> "ValueError", rgba |-> <<>>, border_rgba |-> <<>>]
       ELSE [raised |-> "", rgba |-> Rgb(color) \o <<alpha>>,
             border_rgba |-> Rgb(border_color) \o <<alpha>>]

\* the vertex lists a constructor call has created when it ends: the ValueError
\* is raised before super().__init__(), which calls _create_vertex_list once
ListsCreated(r) == IF r.raised = "" THEN 1 ELSE 0

\* the color setter of BorderedRectangle
set_color(s, values) ==
    LET alpha == IF Len(values) > 3 THEN values[4] ELSE s.rgba[4]
    IN [rgba |-> Rgb(values) \o <<alpha>>, border_rgba |-> Rgb(s.border_rgba) \o <<alpha>>]

\* the border_color setter of BorderedRectangle
set_border_color(s, values) ==
    LET alpha == IF Len(values) > 3 THEN values[4] ELSE s.rgba[4]
    IN [rgba |-> Rgb(s.rgba) \o <<alpha>>, border_rgba |-> Rgb(values) \o <<alpha>>]

\* the opacity setter, inherited from ShapeBase: self._rgba = (*self._rgba[:3], value)
set_opacity(s, value) ==
    [s EXCEPT !.rgba = Rgb(s.rgba) \o <<value>>]

\* BorderedRectangle.update(border_color=, color=, opacity=)
rect_update(s, border_color, color, opacity) ==
    LET s1 == IF border_color # NoColor
              THEN [s EXCEPT !.border_rgba =
                        Rgb(border_color) \o <<IF opacity # NoOpacity THEN opacity
                                                ELSE s.border_rgba[4]>>]
              ELSE s
        s2 == IF color # NoColor
              THEN [s1 EXCEPT !.rgba =
                        Rgb(color) \o <<IF opacity # NoOpacity THEN opacity ELSE s1.rgba[4]>>]
              ELSE s1
    IN IF opacity # NoOpacity
       THEN [rgba |-> Rgb(s2.rgba) \o <<opacity>>,
             border_rgba |-> Rgb(s2.border_rgba) \o <<opacity>>]
       ELSE s2

\* the rectangles the constructor makes
NewRectangles ==
    {[rgba |-> r.rgba, border_rgba |-> r.border_rgba] :
        r \in {q \in {BorderedRectangle_init(c, b) : c \in ColorValues, b \in ColorValues} :
                  q.raised = ""}}

NoConstruct == [color |-> <<>>, border_color |-> <<>>, raised |-> "", vertex_lists |-> 0]

RectInit ==
    /\ rect = [rgba |-> <<255, 255, 255, 255>>, border_rgba |-> <<100, 100, 100, 255>>]
    /\ rectOp = "__init__"
    /\ rectNew = NoConstruct

\* a rectangle as any successful constructor call leaves it
RectInitAny ==
    /\ rect \in NewRectangles
    /\ rectOp = "__init__"
    /\ rectNew = NoConstruct

\* BorderedRectangle(..., color=color, border_color=border_color): on success
\* the new rectangle takes the place of the old one
Construct(color, border_color) ==
    LET r == BorderedRectangle_init(color, border_color)
    IN /\ rectNew' = [color |-> color, border_color |-> border_color, raised |-> r.raised,
                       vertex_lists |-> ListsCreated(r)]
       /\ rect' = IF r.raised = "" THEN [rgba |-> r.rgba, border_rgba |-> r.border_rgba]
                  ELSE rect
       /\ rectOp' = IF r.raised = "" THEN "__init__" ELSE rectOp
       /\ UNCHANGED otherThanRect

SetColor(values) ==
    /\ rect' = set_color(rect, values)
    /\ rectOp' = "color"
    /\ rectNew' = NoConstruct
    /\ UNCHANGED otherThanRect

SetBorderColor(values) ==
    /\ rect' = set_border_color(rect, values)
    /\ rectOp' = "border_color"
    /\ rectNew' = NoConstruct
    /\ UNCHANGED otherThanRect

SetOpacity(value) ==
    /\ rect' = set_opacity(rect, value)
    /\ rectOp' = "opacity"
    /\ rectNew' = NoConstruct
    /\ UNCHANGED otherThanRect

Update(border_color, color, opacity) ==
    /\ rect' = rect_update(rect, border_color, color, opacity)
    /\ rectOp' = "update"
    /\ rectNew' = NoConstruct
    /\ UNCHANGED otherThanRect

RectNext ==
    \/ \E c \in ColorValues, b \in ColorValues : Construct(c, b)
    \/ \E values \in ColorValues : SetColor(values)
    \/ \E values \in ColorValues : SetBorderColor(values)
    \/ \E value \in Opacities : SetOpacity(value)
    \/ \E b \in ColorValues \cup {NoColor}, c \in ColorValues \cup {NoColor},
          o \in Opacities \cup {NoOpacity} : Update(b, c, o)

-----------------------------------------------------------------------------
(* Claims about the BorderedRectangle's colours.                           *)

\* C10: in every state a BorderedRectangle reaches by construction followed
\* by color, border_color and opacity assignments and update() calls, the
\* alpha of the fill colour equals the alpha of the border colour.
C10_SingleAlpha == rect.rgba[4] = rect.border_rgba[4]

HasAlpha(c) == Len(c) > 3

\* C11: BorderedRectangle(color, border_color) raises ValueError, with no
\* vertex list created, when both colours carry an alpha and the two differ;
\* otherwise it succeeds and fill and border both get the alpha one of them
\* carries, or 255 when neither carries one.
C11_ConstructorAlpha ==
    rectNew # NoConstruct =>
        LET c == rectNew.color
            b == rectNew.border_color
        IN IF HasAlpha(c) /\ HasAlpha(b) /\ c[4] # b[4]
           THEN rectNew.raised = "ValueError" /\ rectNew.vertex_lists = 0
           ELSE /\ rectNew.raised = ""
                /\ rectNew.vertex_lists = 1
                /\ rectOp = "__init__" =>
                      LET alpha == IF HasAlpha(c) THEN c[4]
                                   ELSE IF HasAlpha(b) THEN b[4] ELSE 255
                      IN /\ rect.rgba = Rgb(c) \o <<alpha>>
                         /\ rect.border_rgba = Rgb(b) \o <<alpha>>

\* color=(255, 0, 0) and border_color=(0, 0, 255, 128) gave alpha 128 to both
C11_Witness ==
    /\ rectNew.color = <<255, 0, 0>>
    /\ rectNew.border_color = <<0, 0, 255, 128>>
    /\ rectOp = "__init__"
    /\ rect = [rgba |-> <<255, 0, 0, 128>>, border_rgba |-> <<0, 0, 255, 128>>]

-----------------------------------------------------------------------------
(* shapes: the stored colour of every shape class.                         *)
(*                                                                         *)
(* Line, MultiLine, Rectangle, RoundedRectangle and Frame set _rgba in     *)
(* __init__ with the same statement and inherit ShapeBase's color setter;  *)
(* BorderedRectangle has its own __init__ and its own color setter.        *)

PlainShapeClasses == {"Line", "MultiLine", "Rectangle", "RoundedRectangle", "Frame"}
ShapeClasses == PlainShapeClasses \cup {"BorderedRectangle"}

\* Rectangle.__init__ (and Line, MultiLine, RoundedRectangle, Frame):
\* r, g, b, *a = color; self._rgba = r, g, b, a[0] if a else 255
Shape_init(color) ==
    Rgb(color) \o <<IF Len(color) > 3 THEN color[4] ELSE 255>>

\* a color setter that makes an RGB value opaque
ShapeBase_set_color_opaque(rgba, values) ==
    Rgb(values) \o <<IF Len(values) > 3 THEN values[4] ELSE 255>>

\* ShapeBase's color setter
ShapeBase_set_color(rgba, values) ==
    IF Len(values) > 3 THEN Rgb(values) \o <<values[4]>>
    ELSE Rgb(values) \o <<rgba[4]>>

NoColorOp == [op |-> "none", values |-> <<>>, border |-> <<>>, before |-> <<>>]

\* Rectangle(x, y, width, height) with the default colour
ColorInit ==
    /\ cshape = [cls |-> "Rectangle", rgba |-> Shape_init(<<255, 255, 255, 255>>),
                 border_rgba |-> <<>>]
    /\ colorOp = NoColorOp

\* cls(..., color=color), for BorderedRectangle with border_color=border_color;
\* a constructor that raises leaves the shape at hand as it is
NewShape(cls, color, border_color) ==
    /\ (cls = "BorderedRectangle") = (border_color # NoColor)
    /\ LET r == IF cls = "BorderedRectangle"
                THEN BorderedRectangle_init(color, border_color)
                ELSE [raised |-> "", rgba |-> Shape_init(color), border_rgba |-> <<>>]
       IN /\ cshape' = IF r.raised = ""
                       THEN [cls |-> cls, rgba |-> r.rgba, border_rgba |-> r.border_rgba]
                       ELSE cshape
          /\ colorOp' = [op |-> IF r.raised = "" THEN "__init__" ELSE r.raised,
                         values |-> color, border |-> border_color, before |-> <<>>]
    /\ UNCHANGED otherThanColor

\* shape.color = values
AssignColor(values) ==
    /\ cshape' = IF cshape.cls = "BorderedRectangle"
                 THEN LET s == set_color(cshape, values)
                      IN [cls |-> cshape.cls, rgba |-> s.rgba, border_rgba |-> s.border_rgba]
                 ELSE [cshape EXCEPT !.rgba = ShapeBase_set_color(cshape.rgba, values)]
    /\ colorOp' = [op |-> "color", values |-> values, border |-> <<>>,
                   before |-> cshape.rgba]
    /\ UNCHANGED otherThanColor

ColorNext ==
    \/ \E cls \in ShapeClasses, c \in ColorValues, b \in ColorValues \cup {NoColor} :
          NewShape(cls, c, b)
    \/ \E values \in ColorValues : AssignColor(values)

-----------------------------------------------------------------------------
(* Claims about the shapes' stored colour.                                 *)

\* the color setter: an RGB value keeps the alpha, an RGBA value replaces it
ColorAssigned ==
    colorOp.op = "color" =>
        /\ Len(cshape.rgba) = 4
        /\ Rgb(cshape.rgba) = Rgb(colorOp.values)
        /\ cshape.rgba[4] = IF Len(colorOp.values) > 3 THEN colorOp.values[4]
                            ELSE colorOp.before[4]

\* the constructor: an RGBA colour keeps its alpha; an RGB colour gets
\* default_alpha
ColorConstructed(default_alpha) ==
    colorOp.op = "__init__" =>
        /\ Len(cshape.rgba) = 4
        /\ Rgb(cshape.rgba) = Rgb(colorOp.values)
        /\ cshape.rgba[4] = IF Len(colorOp.values) > 3 THEN colorOp.values[4]
                            ELSE default_alpha

\* C12, as stated: every shape stores a 4-tuple; the constructor gives an RGB
\* colour alpha 255 and an RGBA colour its own alpha; assigning RGB to color
\* keeps the alpha, assigning RGBA replaces all four components.
C12_AsStated == ColorConstructed(255) /\ ColorAssigned

\* C12, amended: as stated, except that the constructor of a BorderedRectangle
\* whose border_color carries an alpha gives an RGB colour that alpha.
C12_ColorStored ==
    /\ ColorConstructed(IF Len(colorOp.border) > 3 THEN colorOp.border[4] ELSE 255)
    /\ ColorAssigned

\* a Rectangle with alpha 128 was assigned the RGB colour (0, 0, 255) and kept alpha 128
C12_Witness ==
    /\ cshape.cls = "Rectangle"
    /\ colorOp = [op |-> "color", values |-> <<0, 0, 255>>, border |-> <<>>,
                  before |-> <<255, 0, 0, 128>>]
    /\ cshape.rgba = <<0, 0, 255, 128>>

-----------------------------------------------------------------------------
(* window.key: the module-level tables of key.py, with every constant      *)
(* written by its value (BACKSPACE = 0xff08 = 65288, ...).                  *)

\* motion_dict: motion constant -> name
motion_dict ==
       65362 :> "MOTION_UP"
    @@ 65363 :> "MOTION_RIGHT"
    @@ 65364 :> "MOTION_DOWN"
    @@ 65361 :> "MOTION_LEFT"
    @@ 1 :> "MOTION_NEXT_WORD"
    @@ 2 :> "MOTION_PREVIOUS_WORD"
    @@ 3 :> "MOTION_BEGINNING_OF_LINE"
    @@ 4 :> "MOTION_END_OF_LINE"
    @@ 65366 :> "MOTION_NEXT_PAGE"
    @@ 65365 :> "MOTION_PREVIOUS_PAGE"
    @@ 5 :> "MOTION_BEGINNING_OF_FILE"
    @@ 6 :> "MOTION_END_OF_FILE"
    @@ 65288 :> "MOTION_BACKSPACE"
    @@ 65535 :> "MOTION_DELETE"
    @@ 7 :> "MOTION_COPY"
    @@ 8 :> "MOTION_PASTE"

\* key_dict: key symbol constant -> name
key_dict ==
       65407 :> "NUMLOCK"
    @@ 65408 :> "NUM_SPACE"
    @@ 65417 :> "NUM_TAB"
    @@ 65421 :> "NUM_ENTER"
    @@ 65425 :> "NUM_F1"
    @@ 65426 :> "NUM_F2"
    @@ 65427 :> "NUM_F3"
    @@ 65428 :> "NUM_F4"
    @@ 65429 :> "NUM_HOME"
    @@ 65430 :> "NUM_LEFT"
    @@ 65431 :> "NUM_UP"
    @@ 65432 :> "NUM_RIGHT"
    @@ 65433 :> "NUM_DOWN"
    @@ 65434 :> "NUM_PAGE_UP"
    @@ 65435 :> "NUM_PAGE_DOWN"
    @@ 65436 :> "NUM_END"
    @@ 65437 :> "NUM_BEGIN"
    @@ 65438 :> "NUM_INSERT"
    @@ 65439 :> "NUM_DELETE"
    @@ 65469 :> "NUM_EQUAL"
    @@ 65450 :> "NUM_MULTIPLY"
    @@ 65451 :> "NUM_ADD"
    @@ 65452 :> "NUM_SEPARATOR"
    @@ 65453 :> "NUM_SUBTRACT"
    @@ 65454 :> "NUM_DECIMAL"
    @@ 65455 :> "NUM_DIVIDE"
    @@ 65456 :> "NUM_0"
    @@ 65457 :> "NUM_1"
    @@ 65458 :> "NUM_2"
    @@ 65459 :> "NUM_3"
    @@ 65460 :> "NUM_4"
    @@ 65461 :> "NUM_5"
    @@ 65462 :> "NUM_6"
    @@ 65463 :> "NUM_7"
    @@ 65464 :> "NUM_8"
    @@ 65465 :> "NUM_9"
    @@ 65470 :> "F1"
    @@ 65471 :> "F2"
    @@ 65472 :> "F3"
    @@ 65473 :> "F4"
    @@ 65474 :> "F5"
    @@ 65475 :> "F6"
    @@ 65476 :> "F7"
    @@ 65477 :> "F8"
    @@ 65478 :> "F9"
    @@ 65479 :> "F10"
    @@ 65480 :> "F11"
    @@ 65481 :> "F12"
    @@ 65482 :> "F13"
    @@ 65483 :> "F14"
    @@ 65484 :> "F15"
    @@ 65485 :> "F16"
    @@ 65486 :> "F17"
    @@ 65487 :> "F18"
    @@ 65488 :> "F19"
    @@ 65489 :> "F20"
    @@ 65490 :> "F21"
    @@ 65491 :> "F22"
    @@ 65492 :> "F23"
    @@ 65493 :> "F24"
    @@ 65505 :> "LSHIFT"
    @@ 65506 :> "RSHIFT"
    @@ 65507 :> "LCTRL"
    @@ 65508 :> "RCTRL"
    @@ 65509 :> "CAPSLOCK"
    @@ 65511 :> "LMETA"
    @@ 65512 :> "RMETA"
    @@ 65513 :> "LALT"
    @@ 65514 :> "RALT"
    @@ 65515 :> "LWINDOWS"
    @@ 65516 :> "RWINDOWS"
    @@ 65517 :> "LCOMMAND"
    @@ 65518 :> "RCOMMAND"
    @@ 65519 :> "LOPTION"
    @@ 65520 :> "ROPTION"
    @@ 32 :> "SPACE"
    @@ 33 :> "EXCLAMATION"
    @@ 34 :> "DOUBLEQUOTE"
    @@ 35 :> "POUND"
    @@ 36 :> "DOLLAR"
    @@ 37 :> "PERCENT"
    @@ 38 :> "AMPERSAND"
    @@ 39 :> "APOSTROPHE"
    @@ 40 :> "PARENLEFT"
    @@ 41 :> "PARENRIGHT"
    @@ 42 :> "ASTERISK"
    @@ 43 :> "PLUS"
    @@ 44 :> "COMMA"
    @@ 45 :> "MINUS"
    @@ 46 :> "PERIOD"
    @@ 47 :> "SLASH"
    @@ 48 :> "_0"
    @@ 49 :> "_1"
    @@ 50 :> "_2"
    @@ 51 :> "_3"
    @@ 52 :> "_4"
    @@ 53 :> "_5"
    @@ 54 :> "_6"
    @@ 55 :> "_7"
    @@ 56 :> "_8"
    @@ 57 :> "_9"
    @@ 58 :> "COLON"
    @@ 59 :> "SEMICOLON"
    @@ 60 :> "LESS"
    @@ 61 :> "EQUAL"
    @@ 62 :> "GREATER"
    @@ 63 :> "QUESTION"
    @@ 64 :> "AT"
    @@ 91 :> "BRACKETLEFT"
    @@ 92 :> "BACKSLASH"
    @@ 93 :> "BRACKETRIGHT"
    @@ 94 :> "ASCIICIRCUM"
    @@ 95 :> "UNDERSCORE"
    @@ 96 :> "QUOTELEFT"
    @@ 97 :> "A"
    @@ 98 :> "B"
    @@ 99 :> "C"
    @@ 100 :> "D"
    @@ 101 :> "E"
    @@ 102 :> "F"
    @@ 103 :> "G"
    @@ 104 :> "H"
    @@ 105 :> "I"
    @@ 106 :> "J"
    @@ 107 :> "K"
    @@ 108 :> "L"
    @@ 109 :> "M"
    @@ 110 :> "N"
    @@ 111 :> "O"
    @@ 112 :> "P"
    @@ 113 :> "Q"
    @@ 114 :> "R"
    @@ 115 :> "S"
    @@ 116 :> "T"
    @@ 117 :> "U"
    @@ 118 :> "V"
    @@ 119 :> "W"
    @@ 120 :> "X"
    @@ 121 :> "Y"
    @@ 122 :> "Z"
    @@ 123 :> "BRACELEFT"
    @@ 124 :> "BAR"
    @@ 125 :> "BRACERIGHT"
    @@ 126 :> "ASCIITILDE"

\* the values of the key symbol constants BACKSPACE .. ASCIITILDE
StandardConstants ==
    {
     32, 33, 34, 35, 36, 37, 38, 39, 40, 41, 42, 43,
     44, 45, 46, 47, 48, 49, 50, 51, 52, 53, 54, 55,
     56, 57, 58, 59, 60, 61, 62, 63, 64, 91, 92, 93,
     94, 95, 96, 97, 98, 99, 100, 101, 102, 103, 104, 105,
     106, 107, 108, 109, 110, 111, 112, 113, 114, 115, 116, 117,
     118, 119, 120, 121, 122, 123, 124, 125, 126, 65288, 65289, 65290,
     65291, 65293, 65299, 65300, 65301, 65307, 65360, 65361, 65362, 65363, 65364, 65365,
     65366, 65367, 65368, 65376, 65377, 65378, 65379, 65381, 65382, 65383, 65384, 65385,
     65386, 65387, 65406, 65407, 65408, 65417, 65421, 65425, 65426, 65427, 65428, 65429,
     65430, 65431, 65432, 65433, 65434, 65435, 65436, 65437, 65438, 65439, 65450, 65451,
     65452, 65453, 65454, 65455, 65456, 65457, 65458, 65459, 65460, 65461, 65462, 65463,
     65464, 65465, 65469, 65470, 65471, 65472, 65473, 65474, 65475, 65476, 65477, 65478,
     65479, 65480, 65481, 65482, 65483, 65484, 65485, 65486, 65487, 65488, 65489, 65490,
     65491, 65492, 65493, 65505, 65506, 65507, 65508, 65509, 65511, 65512, 65513, 65514,
     65515, 65516, 65517, 65518, 65519, 65520, 65535
    }

-----------------------------------------------------------------------------
(* window.key: symbol_string, motion_string and user_key.                  *)
(*                                                                         *)
(* A Python int is written [hi, lo], standing for hi * 2^32 + lo with      *)
(* 0 <= lo < 2^32, so that symbol >> 32 is hi, symbol < 1 << 32 is hi = 0  *)
(* and scancode << 32 moves lo to hi.                                      *)

PyInt(hi, lo) == [hi |-> hi, lo |-> lo]

DecDigits == <<"0", "1", "2", "3", "4", "5", "6", "7", "8", "9">>
HexDigits == DecDigits \o <<"a", "b", "c", "d", "e", "f">>

RECURSIVE Digits(_, _)
Digits(n, digits) ==
    IF n < Len(digits) THEN digits[n + 1]
    ELSE Digits(n \div Len(digits), digits) \o digits[(n % Len(digits)) + 1]

\* str(n) for n >= 0
str(n) == Digits(n, DecDigits)

\* '%x' % n for n >= 0
FormatHex(n) == Digits(n, HexDigits)

Returned(value) == [raised |-> "", value |-> value]
Raised(exception) == [raised |-> exception, value |-> ""]

\* symbol_string: the name _key_names is bound nowhere in the module, so the
\* branch for symbol < 1 << 32 raises NameError before any lookup
symbol_string(symbol) ==
    IF symbol.hi = 0 THEN Raised("NameError")
    ELSE Returned("user_key(" \o FormatHex(symbol.hi) \o ")")

\* motion_string: the name _motion_names is bound nowhere in the module
motion_string(motion) == Raised("NameError")

\* a user_key that keeps only the low four bits of the scancode
user_key_low_bits(scancode) ==
    IF ~(scancode > 0) THEN Raised("AssertionError")
    ELSE Returned(PyInt(scancode % 16, 0))

\* user_key: assert scancode > 0; return scancode << 32
user_key(scancode) ==
    IF ~(scancode > 0) THEN Raised("AssertionError")
    ELSE Returned(PyInt(scancode, 0))

MaxScancode == 32
Scancodes == (-1)..MaxScancode

\* codes handed to symbol_string: every registered code, codes that are not
\* registered, and codes of 2^32 and above
UnregisteredCodes == {0, 9, 300, 65288, 65535, 70000, 12345678}
SymbolCodes ==
    {PyInt(0, lo) : lo \in DOMAIN key_dict \cup UnregisteredCodes}
        \cup {PyInt(hi, lo) : hi \in 1..MaxScancode, lo \in {0, 65288}}
MotionCodes == DOMAIN motion_dict \cup {0, 9, 99, 65289}

NoKeyCall == [fn |-> "none", arg |-> 0, raised |-> "", value |-> ""]
KeyCall(fn, arg, r) == [fn |-> fn, arg |-> arg, raised |-> r.raised, value |-> r.value]

SymInit ==
    /\ symCall = NoKeyCall
    /\ userKeyCall = NoKeyCall

\* the user_key call kept at hand when another call is made
KeptUserKey == IF symCall.fn = "user_key" THEN symCall ELSE userKeyCall

SymbolString(symbol) ==
    /\ symCall' = KeyCall("symbol_string", symbol, symbol_string(symbol))
    /\ userKeyCall' = KeptUserKey
    /\ UNCHANGED otherThanSym

MotionString(motion) ==
    /\ symCall' = KeyCall("motion_string", motion, motion_string(motion))
    /\ userKeyCall' = KeptUserKey
    /\ UNCHANGED otherThanSym

UserKey(scancode) ==
    /\ symCall' = KeyCall("user_key", scancode, user_key(scancode))
    /\ userKeyCall' = KeptUserKey
    /\ UNCHANGED otherThanSym

SymNext ==
    \/ \E symbol \in SymbolCodes : SymbolString(symbol)
    \/ \E motion \in MotionCodes : MotionString(motion)
    \/ \E scancode \in Scancodes : UserKey(scancode)

-----------------------------------------------------------------------------
(* Claims about symbol_string, motion_string and user_key.                 *)

\* dict.get(key, default)
DictGet(d, key, default) == IF key \in DOMAIN d THEN d[key] ELSE default

\* C13: symbol_string returns the registered name of a registered code below
\* 2^32, the decimal string of an unregistered code below 2^32 and
\* 'user_key(<hex of code >> 32>)' for a code of 2^32 or more; motion_string
\* returns the registered motion name or the decimal string.
C13_NameLookup ==
    /\ symCall.fn = "symbol_string" =>
          /\ symCall.raised = ""
          /\ symCall.value =
                IF symCall.arg.hi = 0
                THEN DictGet(key_dict, symCall.arg.lo, str(symCall.arg.lo))
                ELSE "user_key(" \o FormatHex(symCall.arg.hi) \o ")"
    /\ symCall.fn = "motion_string" =>
          /\ symCall.raised = ""
          /\ symCall.value = DictGet(motion_dict, symCall.arg, str(symCall.arg))

\* the part of C13 that the code does satisfy: codes of 2^32 and above
C13_UserKeyNames ==
    (symCall.fn = "symbol_string" /\ symCall.arg.hi > 0) =>
        /\ symCall.raised = ""
        /\ symCall.value = "user_key(" \o FormatHex(symCall.arg.hi) \o ")"

\* C15: for scancode > 0, user_key(scancode) is scancode << 32: it is at
\* least 2^32, it is none of the standard key constants, two scancodes never
\* give the same symbol, and symbol_string of it is 'user_key(<scancode in hex>)'.
C15_UserKey ==
    /\ (symCall.fn = "user_key" /\ symCall.arg > 0) =>
          /\ symCall.raised = ""
          /\ symCall.value = PyInt(symCall.arg, 0)
          /\ symCall.value.hi >= 1
          /\ ~(symCall.value.hi = 0 /\ symCall.value.lo \in StandardConstants)
          /\ (userKeyCall.fn = "user_key" /\ userKeyCall.raised = ""
                /\ userKeyCall.value = symCall.value) => userKeyCall.arg = symCall.arg
    /\ (symCall.fn = "symbol_string" /\ userKeyCall.fn = "user_key"
          /\ userKeyCall.raised = "" /\ symCall.arg = userKeyCall.value) =>
          /\ symCall.raised = ""
          /\ symCall.value = "user_key(" \o FormatHex(userKeyCall.arg) \o ")"

\* user_key(26) was 26 << 32 and symbol_string of it is 'user_key(1a)'
C15_Witness ==
    /\ userKeyCall.fn = "user_key" /\ userKeyCall.arg = 26
    /\ userKeyCall.raised = "" /\ userKeyCall.value = PyInt(26, 0)
    /\ symCall.fn = "symbol_string" /\ symCall.arg = PyInt(26, 0)
    /\ symCall.raised = "" /\ symCall.value = "user_key(1a)"

-----------------------------------------------------------------------------
(* window.key: modifiers_string.                                           *)

MOD_SHIFT == 1
MOD_CTRL == 2
MOD_ALT == 4
MOD_CAPSLOCK == 8
MOD_NUMLOCK == 16
MOD_WINDOWS == 32
MOD_COMMAND == 64
MOD_OPTION == 128
MOD_SCROLLLOCK == 256
MOD_FUNCTION == 512

\* modifiers & flag, for a flag of one bit
BitAnd(modifiers, flag) == IF (modifiers \div flag) % 2 = 1 THEN flag ELSE 0

\* '|'.join(names)
RECURSIVE Join(_)
Join(names) ==
    IF names = <<>> THEN ""
    ELSE IF Len(names) = 1 THEN names[1]
    ELSE names[1] \o "|" \o Join(Tail(names))

\* mod_names after the if statements over tests, taken in order: each
\* appends its name when modifiers & flag is nonzero
RECURSIVE ModNames(_, _)
ModNames(modifiers, tests) ==
    IF tests = <<>> THEN <<>>
    ELSE (IF BitAnd(modifiers, tests[1][1]) # 0 THEN <<tests[1][2]>> ELSE <<>>)
            \o ModNames(modifiers, Tail(tests))

\* the if statements of modifiers_string, in the order they are written
ModifierTests ==
    << <<MOD_SHIFT, "MOD_SHIFT">>, <<MOD_CTRL, "MOD_CTRL">>, <<MOD_ALT, "MOD_ALT">>,
       <<MOD_CAPSLOCK, "MOD_CAPSLOCK">>, <<MOD_NUMLOCK, "MOD_NUMLOCK">>,
       <<MOD_SCROLLLOCK, "MOD_SCROLLLOCK">>, <<MOD_COMMAND, "MOD_COMMAND">>,
       <<MOD_OPTION, "MOD_OPTION">>, <<MOD_FUNCTION, "MOD_FUNCTION">> >>

modifiers_string(modifiers) == Join(ModNames(modifiers, ModifierTests))

MaxMask == 1023
Masks == 0..MaxMask

NoModCall == [arg |-> -1, value |-> ""]

ModInit == modCall = NoModCall

ModifiersString(modifiers) ==
    /\ modCall' = [arg |-> modifiers, value |-> modifiers_string(modifiers)]
    /\ UNCHANGED otherThanMod

ModNext == \E modifiers \in Masks : ModifiersString(modifiers)

-----------------------------------------------------------------------------
(* Claims about modifiers_string.                                          *)

\* the modifier flags in the order the constants are declared
DeclaredModifiers ==
    << <<MOD_SHIFT, "MOD_SHIFT">>, <<MOD_CTRL, "MOD_CTRL">>, <<MOD_ALT, "MOD_ALT">>,
       <<MOD_CAPSLOCK, "MOD_CAPSLOCK">>, <<MOD_NUMLOCK, "MOD_NUMLOCK">>,
       <<MOD_WINDOWS, "MOD_WINDOWS">>, <<MOD_COMMAND, "MOD_COMMAND">>,
       <<MOD_OPTION, "MOD_OPTION">>, <<MOD_SCROLLLOCK, "MOD_SCROLLLOCK">>,
       <<MOD_FUNCTION, "MOD_FUNCTION">> >>

\* C14: modifiers_string(mask) is the '|'-joined names of exactly the flags set
\* in mask, in the order MOD_SHIFT, MOD_CTRL, MOD_ALT, MOD_CAPSLOCK, MOD_NUMLOCK,
\* MOD_WINDOWS, MOD_COMMAND, MOD_OPTION, MOD_SCROLLLOCK, MOD_FUNCTION.
C14_ModifiersString ==
    modCall.arg >= 0 => modCall.value = Join(ModNames(modCall.arg, DeclaredModifiers))

\* what does hold: the names of the flags set, MOD_WINDOWS apart, each once
C14_NamesOfFlags ==
    modCall.arg >= 0 =>
        \A i \in 1..Len(DeclaredModifiers) :
            LET flag == DeclaredModifiers[i][1]
                name == DeclaredModifiers[i][2]
                names == ModNames(modCall.arg, ModifierTests)
            IN Cardinality({j \in 1..Len(names) : names[j] = name})
                  = IF BitAnd(modCall.arg, flag) # 0 /\ flag # MOD_WINDOWS THEN 1 ELSE 0

-----------------------------------------------------------------------------
(* matrix: Mat4.orthogonal_projection.                                     *)
(*                                                                         *)
(* A float is written as the fraction <<n, d>> in lowest terms with d > 0; *)
(* the arguments are integers whose differences are 0 or powers of two, so *)
(* every quotient is exact in binary floating point and -0.0 == 0.0.       *)

RECURSIVE Gcd(_, _)
Gcd(a, b) == IF b = 0 THEN a ELSE Gcd(b, a % b)

Magnitude(n) == IF n < 0 THEN -n ELSE n

\* n / d for d # 0
Frac(n, d) ==
    LET g == Gcd(Magnitude(n), Magnitude(d))
        sign == IF d < 0 THEN -1 ELSE 1
    IN <<(sign * n) \div g, (sign * d) \div g>>

Float(n) == <<n, 1>>

\* Mat4(): the field defaults
Mat4_default == [i \in 1..16 |-> Float(IdentityMat4[i])]

\* an orthogonal_projection that scales z by 2 / depth
orthogonal_projection_unflipped(left, right, bottom, top, z_near, z_far) ==
    LET width == right - left
        height == top - bottom
        depth == z_far - z_near
    IN IF width = 0 \/ height = 0 \/ depth = 0 THEN Raised("ZeroDivisionError")
       ELSE Returned(<<Frac(2, width), Float(0), Float(0), Float(0),
                       Float(0), Frac(2, height), Float(0), Float(0),
                       Float(0), Float(0), Frac(2, depth), Float(0),
                       Frac(-(right + left), width), Frac(-(top + bottom), height),
                       Frac(-(z_far + z_near), depth), Float(1)>>)

\* Mat4.orthogonal_projection: a division by a zero width, height or depth
\* raises ZeroDivisionError
orthogonal_projection(left, right, bottom, top, z_near, z_far) ==
    LET width == right - left
        height == top - bottom
        depth == z_far - z_near
    IN IF width = 0 \/ height = 0 \/ depth = 0 THEN Raised("ZeroDivisionError")
       ELSE LET s_x == Frac(2, width)
                s_y == Frac(2, height)
                s_z == Frac(2, -depth)
                t_x == Frac(-(right + left), width)
                t_y == Frac(-(top + bottom), height)
                t_z == Frac(-(z_far + z_near), depth)
            IN Returned(<<s_x, Float(0), Float(0), Float(0),
                          Float(0), s_y, Float(0), Float(0),
                          Float(0), Float(0), s_z, Float(0),
                          t_x, t_y, t_z, Float(1)>>)

\* the (low, high) pairs handed in as left/right, bottom/top and z_near/z_far
Intervals == {<<-1, 1>>, <<1, -1>>, <<0, 2>>, <<0, 1>>, <<1, 1>>, <<-2, 2>>, <<-1, 0>>}

NoProjCall == [args |-> <<>>, raised |-> "", value |-> <<>>]

ProjInit == projCall = NoProjCall

OrthogonalProjection(x, y, z) ==
    /\ LET r == orthogonal_projection(x[1], x[2], y[1], y[2], z[1], z[2])
       IN projCall' = [args |-> <<x[1], x[2], y[1], y[2], z[1], z[2]>>,
                       raised |-> r.raised,
                       value |-> IF r.raised = "" THEN r.value ELSE <<>>]
    /\ UNCHANGED otherThanProj

ProjNext == \E x \in Intervals, y \in Intervals, z \in Intervals : OrthogonalProjection(x, y, z)

-----------------------------------------------------------------------------
(* Claims about Mat4.orthogonal_projection.                                *)

\* Mat4() with k = -1: the identity with the z axis flipped
FlippedZ == [Mat4_default EXCEPT ![11] = Float(-1)]

\* C16, as stated: Mat4.orthogonal_projection(-1, 1, -1, 1, -1, 1) equals Mat4().
C16_AsStated ==
    projCall.args = <<-1, 1, -1, 1, -1, 1>> =>
        projCall.raised = "" /\ projCall.value = Mat4_default

\* C16, amended: Mat4.orthogonal_projection(-1, 1, -1, 1, -1, 1) equals Mat4()
\* in every entry but k, which is -1 (s_z = 2 / -depth); with the z planes
\* the other way round, (-1, 1, -1, 1, 1, -1), the result equals Mat4().
C16_KnownProjection ==
    /\ projCall.args = <<-1, 1, -1, 1, -1, 1>> =>
          projCall.raised = "" /\ projCall.value = FlippedZ
    /\ projCall.args = <<-1, 1, -1, 1, 1, -1>> =>
          projCall.raised = "" /\ projCall.value = Mat4_default

\* orthogonal_projection(-1, 1, -1, 1, -1, 1) has returned
C16_Witness ==
    /\ projCall.args = <<-1, 1, -1, 1, -1, 1>>
    /\ projCall.raised = ""
    /\ projCall.value[11] = Float(-1)

-----------------------------------------------------------------------------
(* matrix: the @ operator of Mat3 and Mat4.                                *)
(*                                                                         *)
(* matrix.py imports Vec3 and Vec4 only under typing.TYPE_CHECKING, which  *)
(* is False when the program runs: the names are unbound in the module.    *)

TYPE_CHECKING == FALSE

\* the names the module binds from kiglent.vector
VectorNames == IF TYPE_CHECKING THEN {"Vec3", "Vec4"} ELSE {}

\* Mat3.__matmul__: unpacking other into nine names raises ValueError for any
\* other length; the handler unpacks it into three and calls Vec3
Mat3_matmul(self, other) ==
    IF Len(other) = 9
    THEN Returned([type |-> "Mat3",
                   elems |-> [i \in 1..9 |->
                       LET r == ((i - 1) % 3) + 1
                           c == ((i - 1) \div 3) + 1
                       IN self[r] * other[3 * (c - 1) + 1] + self[3 + r] * other[3 * (c - 1) + 2]
                          + self[6 + r] * other[3 * (c - 1) + 3]]])
    ELSE IF Len(other) # 3 THEN Raised("ValueError")
    ELSE IF "Vec3" \notin VectorNames THEN Raised("NameError")
    ELSE Returned([type |-> "Vec3",
                   elems |-> [r \in 1..3 |->
                       self[r] * other[1] + self[3 + r] * other[2] + self[6 + r] * other[3]]])

\* Mat4.__matmul__: the same with sixteen and four names and Vec4
Mat4_matmul(self, other) ==
    IF Len(other) = 16 THEN Returned([type |-> "Mat4", elems |-> matmul(self, other)])
    ELSE IF Len(other) # 4 THEN Raised("ValueError")
    ELSE IF "Vec4" \notin VectorNames THEN Raised("NameError")
    ELSE Returned([type |-> "Vec4",
                   elems |-> [r \in 1..4 |->
                       other[1] * self[r] + other[2] * self[4 + r] + other[3] * self[8 + r]
                       + other[4] * self[12 + r]]])

MaxEntry == 1
Entries == (-MaxEntry)..MaxEntry

Mat3Values ==
    {<<1, 0, 0,  0, 1, 0,  0, 0, 1>>, <<1, 2, 3,  4, 5, 6,  7, 8, 9>>,
     <<0, -1, 0,  1, 0, 0,  2, -3, 1>>}
Mat4Values ==
    {IdentityMat4, ShearMat4,
     <<1, 2, 3, 4,  5, 6, 7, 8,  9, 10, 11, 12,  13, 14, 15, 16>>}
Vec3Values == {<<x, y, z>> : x \in Entries, y \in Entries, z \in Entries}
Vec4Values == {<<x, y, z, 1>> : x \in Entries, y \in Entries, z \in Entries}
                \cup {<<0, 0, 0, 0>>, <<1, -1, 1, -1>>}

NoMatmul == [cls |-> "", self |-> <<>>, other |-> <<>>, raised |-> "", value |-> ""]

MatmulInit == mmCall = NoMatmul

\* self @ other for a Mat3 self
Mat3Matmul(self, other) ==
    /\ LET r == Mat3_matmul(self, other)
       IN mmCall' = [cls |-> "Mat3", self |-> self, other |-> other,
                     raised |-> r.raised, value |-> r.value]
    /\ UNCHANGED otherThanMatmul

\* self @ other for a Mat4 self
Mat4Matmul(self, other) ==
    /\ LET r == Mat4_matmul(self, other)
       IN mmCall' = [cls |-> "Mat4", self |-> self, other |-> other,
                     raised |-> r.raised, value |-> r.value]
    /\ UNCHANGED otherThanMatmul

MatmulNext ==
    \/ \E self \in Mat3Values, other \in Mat3Values \cup Vec3Values \cup {<<1, 2, 3, 4>>} :
          Mat3Matmul(self, other)
    \/ \E self \in Mat4Values, other \in Mat4Values \cup Vec4Values \cup {<<1, 2, 3>>} :
          Mat4Matmul(self, other)

-----------------------------------------------------------------------------
(* Claims about the @ operator.                                            *)

RECURSIVE SumTo(_, _)
\* f[1] + ... + f[n]
SumTo(f, n) == IF n = 0 THEN 0 ELSE SumTo(f, n - 1) + f[n]

\* the product of two n x n matrices stored column first
MatrixProduct(n, a, b) ==
    [i \in 1..(n * n) |->
        LET r == ((i - 1) % n) + 1
            c == ((i - 1) \div n) + 1
        IN SumTo([k \in 1..n |-> a[n * (k - 1) + r] * b[n * (c - 1) + k]], n)]

\* the product of an n x n matrix stored column first and a column vector
MatrixVector(n, a, v) ==
    [r \in 1..n |-> SumTo([k \in 1..n |-> a[n * (k - 1) + r] * v[k]], n)]

Dim(cls) == IF cls = "Mat3" THEN 3 ELSE 4
VecOf(cls) == IF cls = "Mat3" THEN "Vec3" ELSE "Vec4"

\* a matrix right operand gives the matrix product
C17_MatrixProducts ==
    (mmCall.cls # "" /\ Len(mmCall.other) = Dim(mmCall.cls) * Dim(mmCall.cls)) =>
        /\ mmCall.raised = ""
        /\ mmCall.value = [type |-> mmCall.cls,
                           elems |-> MatrixProduct(Dim(mmCall.cls), mmCall.self, mmCall.other)]

\* C17: @ dispatches on the arity of the right operand: Mat3 @ 9 elements is
\* the Mat3 product and Mat3 @ 3 elements the Vec3 matrix-vector product;
\* Mat4 @ 16 elements is the Mat4 product and Mat4 @ 4 elements the Vec4
\* matrix-vector product.
C17_MatmulDispatch ==
    /\ C17_MatrixProducts
    /\ (mmCall.cls # "" /\ Len(mmCall.other) = Dim(mmCall.cls)) =>
          /\ mmCall.raised = ""
          /\ mmCall.value = [type |-> VecOf(mmCall.cls),
                             elems |-> MatrixVector(Dim(mmCall.cls), mmCall.self, mmCall.other)]

-----------------------------------------------------------------------------
(* vector: __add__, __radd__ and normalize of Vec2, Vec3 and Vec4.         *)
(*                                                                         *)
(* A vector is the tuple of its components.  The other operand of + is a   *)
(* tagged value: an int, a tuple or a str.                                 *)

VecClasses == {"Vec2", "Vec3", "Vec4"}
VecLen(cls) == CASE cls = "Vec2" -> 2 [] cls = "Vec3" -> 3 [] cls = "Vec4" -> 4

PyIntValue(n) == [kind |-> "int", n |-> n]
PyTuple(elems) == [kind |-> "tuple", elems |-> elems]
PyStr(s) == [kind |-> "str", s |-> s]

\* an __add__ that only adds element by element
Vec_add_elementwise(self, other) ==
    IF other.kind = "tuple"
    THEN IF Len(other.elems) < Len(self) THEN Raised("IndexError")
         ELSE Returned([i \in 1..Len(self) |-> self[i] + other.elems[i]])
    ELSE Raised("TypeError")

\* Vec2/Vec3/Vec4.__add__: self[i] + other[i]; an int has no items (TypeError)
\* and is then added to every component; the first item of a str cannot be
\* added, nor can the str itself (TypeError both times); the empty str has no
\* first item and a tuple that is too short lacks a later one (IndexError,
\* which the except clause does not catch)
Vec_add(self, other) ==
    CASE other.kind = "tuple" ->
            IF Len(other.elems) < Len(self) THEN Raised("IndexError")
            ELSE Returned([i \in 1..Len(self) |-> self[i] + other.elems[i]])
      [] other.kind = "int" -> Returned([i \in 1..Len(self) |-> self[i] + other.n])
      [] other.kind = "str" ->
            IF other.s = "" THEN Raised("IndexError") ELSE Raised("TypeError")

\* __radd__: self.__add__(other); on TypeError, self if other == 0, else the error
Vec_radd(self, other) ==
    LET r == Vec_add(self, other)
    IN IF r.raised = "TypeError"
       THEN IF other.kind = "int" /\ other.n = 0 THEN Returned(self) ELSE r
       ELSE r

\* self[0] ** 2 + self[1] ** 2 + ...
RECURSIVE SumOfSquares(_)
SumOfSquares(v) == IF v = <<>> THEN 0 ELSE v[1] * v[1] + SumOfSquares(Tail(v))

IsSquare(n) == \E r \in 0..n : r * r = n
\* math.sqrt(n) for a perfect square n
Sqrt(n) == CHOOSE r \in 0..n : r * r = n

\* normalize: Vec2 and Vec4 test d for truth, Vec3 divides and catches
\* ZeroDivisionError; either way a zero d gives self back
normalize(cls, self) ==
    LET d == Sqrt(SumOfSquares(self))
    IN IF cls = "Vec3"
       THEN IF d = 0 THEN Returned(self)
            ELSE Returned([i \in 1..Len(self) |-> Frac(self[i], d)])
       ELSE IF d # 0 THEN Returned([i \in 1..Len(self) |-> Frac(self[i], d)])
            ELSE Returned(self)

MaxComponent == 1
Components == (-MaxComponent)..MaxComponent

RECURSIVE Tuples(_)
\* the tuples of n components
Tuples(n) ==
    IF n = 0 THEN {<<>>}
    ELSE {Append(t, c) : t \in Tuples(n - 1), c \in Components}

Vectors(cls) == Tuples(VecLen(cls))
\* the vectors whose length math.sqrt gives exactly
Normalizable(cls) == {v \in Vectors(cls) : IsSquare(SumOfSquares(v))}
Operands(cls) ==
    {PyIntValue(0), PyIntValue(1), PyStr("a"), PyStr(""), PyTuple(<<1>>),
     PyTuple([i \in 1..VecLen(cls) |-> 1])}

NoVecCall == [op |-> "none", cls |-> "", self |-> <<>>, other |-> PyIntValue(0),
              raised |-> "", value |-> <<>>]
VecCall(op, cls, self, other, r) ==
    [op |-> op, cls |-> cls, self |-> self, other |-> other, raised |-> r.raised,
     value |-> IF r.raised = "" THEN r.value ELSE <<>>]

VecInit == vecCall = NoVecCall

\* self + other
Add(cls, self, other) ==
    /\ vecCall' = VecCall("add", cls, self, other, Vec_add(self, other))
    /\ UNCHANGED otherThanVec

\* other + self: neither int, str nor tuple adds a vector, so self.__radd__(other) runs
RAdd(cls, self, other) ==
    /\ vecCall' = VecCall("radd", cls, self, other, Vec_radd(self, other))
    /\ UNCHANGED otherThanVec

Normalize(cls, self) ==
    /\ vecCall' = VecCall("normalize", cls, self, PyIntValue(0), normalize(cls, self))
    /\ UNCHANGED otherThanVec

VecNext ==
    \/ \E cls \in VecClasses : \E self \in Vectors(cls), other \in Operands(cls) :
          Add(cls, self, other)
    \/ \E cls \in VecClasses : \E self \in Vectors(cls), other \in Operands(cls) :
          RAdd(cls, self, other)
    \/ \E cls \in VecClasses : \E self \in Normalizable(cls) : Normalize(cls, self)

-----------------------------------------------------------------------------
(* Claims about the vectors.                                               *)

\* C18: for every Vec2, Vec3 and Vec4 value v, v + 0 == v and 0 + v == v, and
\* normalize() of a zero-length vector returns the vector unchanged without
\* raising.
C18_ZeroLaws ==
    /\ (vecCall.op \in {"add", "radd"} /\ vecCall.other = PyIntValue(0)) =>
          vecCall.raised = "" /\ vecCall.value = vecCall.self
    /\ (vecCall.op = "normalize" /\ SumOfSquares(vecCall.self) = 0) =>
          vecCall.raised = "" /\ vecCall.value = vecCall.self

\* Vec3(1, -1, 0) + 0 was computed and is Vec3(1, -1, 0)
C18_Witness ==
    /\ vecCall.op = "add" /\ vecCall.cls = "Vec3"
    /\ vecCall.self = <<1, -1, 0>> /\ vecCall.other = PyIntValue(0)
    /\ vecCall.value = <<1, -1, 0>>

\* Vec3(0, 0, 0).normalize() was computed
C18_WitnessNormalize ==
    /\ vecCall.op = "normalize" /\ vecCall.cls = "Vec3"
    /\ vecCall.self = <<0, 0, 0>> /\ vecCall.value = <<0, 0, 0>>

-----------------------------------------------------------------------------
(* media.devices: the audio device manager of the process.                 *)
(*                                                                         *)
(* Managers are numbered in the order they are constructed; NoManager is   *)
(* None.  A manager is an ordinary object, so it is truthy.                *)

MaxGetCalls == 12         \* at most this many get_audio_device_manager calls

NoManager == 0
Platforms == {"win32", "linux", "darwin"}

\* a get_audio_device_manager that constructs a manager on every call
get_audio_device_manager_uncached(platform, cached, constructed) ==
    IF platform = "win32"
    THEN [manager |-> constructed + 1, returned |-> constructed + 1, built |-> 1]
    ELSE [manager |-> NoManager, returned |-> NoManager, built |-> 0]

\* get_audio_device_manager: the cached manager if there is one; otherwise
\* the cache is set to None and, on win32, to a new Win32AudioDeviceManager()
get_audio_device_manager(platform, cached, constructed) ==
    IF cached # NoManager
    THEN [manager |-> cached, returned |-> cached, built |-> 0]
    ELSE IF platform = "win32"
    THEN [manager |-> constructed + 1, returned |-> constructed + 1, built |-> 1]
    ELSE [manager |-> NoManager, returned |-> NoManager, built |-> 0]

\* _delete_manager: _audio_device_manager = None
delete_manager(cached) == NoManager

NoDevCall == [op |-> "none", returned |-> NoManager, before |-> NoManager, built |-> 0]

\* the module just imported on the given platform: _audio_device_manager = None
DevInitOn(platform) ==
    /\ compat_platform = platform
    /\ audio_device_manager = NoManager
    /\ managersConstructed = 0
    /\ getCalls = 0
    /\ devLog = NoDevCall

DevInit == DevInitOn("linux")
DevInitAny == \E platform \in Platforms : DevInitOn(platform)

GetAudioDeviceManager ==
    /\ getCalls < MaxGetCalls
    /\ LET r == get_audio_device_manager(compat_platform, audio_device_manager,
                                         managersConstructed)
       IN /\ audio_device_manager' = r.manager
          /\ managersConstructed' = managersConstructed + r.built
          /\ devLog' = [op |-> "get", returned |-> r.returned,
                        before |-> audio_device_manager, built |-> r.built]
    /\ getCalls' = getCalls + 1
    /\ UNCHANGED compat_platform
    /\ UNCHANGED otherThanDev

\* the exit hook registered with atexit (or a direct call)
DeleteManager ==
    /\ audio_device_manager' = delete_manager(audio_device_manager)
    /\ devLog' = [op |-> "delete", returned |-> NoManager,
                  before |-> audio_device_manager, built |-> 0]
    /\ UNCHANGED <<compat_platform, managersConstructed, getCalls>>
    /\ UNCHANGED otherThanDev

DevNext == GetAudioDeviceManager \/ DeleteManager

-----------------------------------------------------------------------------
(* Claims about the audio device manager.                                  *)

\* C19: on win32 the first call constructs one manager and every later call
\* before the exit hook returns that same instance without constructing
\* another; on every other platform every call returns no manager; the exit
\* hook _delete_manager clears the cached reference.
C19_LazySingleton ==
    /\ (devLog.op = "get" /\ compat_platform = "win32") =>
          /\ devLog.returned # NoManager
          /\ audio_device_manager = devLog.returned
          /\ IF devLog.before = NoManager
             THEN devLog.built = 1 /\ devLog.returned = managersConstructed
             ELSE devLog.built = 0 /\ devLog.returned = devLog.before
    /\ (devLog.op = "get" /\ compat_platform # "win32") =>
          /\ devLog.returned = NoManager
          /\ managersConstructed = 0
    /\ devLog.op = "delete" => audio_device_manager = NoManager

\* on win32 a call found the manager of an earlier call cached and returned it
C19_Witness ==
    /\ compat_platform = "win32"
    /\ devLog = [op |-> "get", returned |-> 1, before |-> 1, built |-> 0]
    /\ managersConstructed = 1
    /\ getCalls = 3

-----------------------------------------------------------------------------
(* media/drivers/openal/__init__.py, media/drivers/pulse/__init__.py.      *)
(*                                                                         *)
(* Each module binds _debug when its body runs, at the first import; the   *)
(* factory tests that module global.  The driver classes come from the     *)
(* adaptation modules; in the actions of this section their construction   *)
(* succeeds.                                                               *)

DriverModules == {"openal", "pulse"}

NotImported == [imported |-> FALSE, debug |-> FALSE, debug_buffers |-> FALSE]

\* the module body: _debug = kiglent.options['debug_media'], and in openal
\* _debug_buffers = kiglent.options.get('debug_media_buffers', False)
driver_module_body(module, opts) ==
    [imported |-> TRUE, debug |-> opts.debug_media,
     debug_buffers |-> IF module = "openal" /\ opts.debug_media_buffers # <<>>
                       THEN opts.debug_media_buffers[1] ELSE FALSE]

\* create_audio_driver of the module: the calls it makes, in order
create_audio_driver(module, globals, opts) ==
    IF module = "openal"
    THEN <<"OpenALDriver(device_name)">>
            \o (IF globals.debug THEN <<"print('OpenAL', get_version())">> ELSE <<>>)
    ELSE <<"PulseAudioDriver()", "connect()">>
            \o (IF globals.debug THEN <<"dump_debug_info()">> ELSE <<>>)

NoDriverCall == [op |-> "none", module |-> "", debug_media |-> FALSE, calls |-> <<>>]

\* nothing imported yet, the options off
DrvInit ==
    /\ options = [debug_media |-> FALSE, debug_media_buffers |-> <<>>]
    /\ driverGlobals = [mod \in DriverModules |-> NotImported]
    /\ driverCall = NoDriverCall

\* nothing imported yet, the options as the application started with them
DrvInitAny ==
    /\ options \in [debug_media : BOOLEAN, debug_media_buffers : Optional(BOOLEAN)]
    /\ driverGlobals = [mod \in DriverModules |-> NotImported]
    /\ driverCall = NoDriverCall

\* nothing imported yet, debug_media as the application started with it and
\* debug_media_buffers absent
DrvInitDebug ==
    /\ options \in [debug_media : BOOLEAN, debug_media_buffers : {<<>>}]
    /\ driverGlobals = [mod \in DriverModules |-> NotImported]
    /\ driverCall = NoDriverCall

\* kiglent.options['debug_media'] = value
SetDebugMedia(value) ==
    /\ options' = [options EXCEPT !.debug_media = value]
    /\ driverCall' = [op |-> "set", module |-> "", debug_media |-> value, calls |-> <<>>]
    /\ UNCHANGED driverGlobals
    /\ UNCHANGED otherThanDrv

\* kiglent.options['debug_media_buffers'] = value
SetDebugMediaBuffers(value) ==
    /\ options' = [options EXCEPT !.debug_media_buffers = <<value>>]
    /\ driverCall' = [op |-> "set", module |-> "", debug_media |-> options.debug_media,
                      calls |-> <<>>]
    /\ UNCHANGED driverGlobals
    /\ UNCHANGED otherThanDrv

\* the first import of a driver module runs its body
ImportDriver(module) ==
    /\ ~driverGlobals[module].imported
    /\ driverGlobals' = [driverGlobals EXCEPT ![module] = driver_module_body(module, options)]
    /\ driverCall' = [op |-> "import", module |-> module, debug_media |-> options.debug_media,
                      calls |-> <<>>]
    /\ UNCHANGED options
    /\ UNCHANGED otherThanDrv

\* module.create_audio_driver()
CreateAudioDriver(module) ==
    /\ driverGlobals[module].imported
    /\ driverCall' = [op |-> "create", module |-> module, debug_media |-> options.debug_media,
                      calls |-> create_audio_driver(module, driverGlobals[module], options)]
    /\ UNCHANGED <<options, driverGlobals>>
    /\ UNCHANGED otherThanDrv

DrvNext ==
    \/ \E value \in BOOLEAN : SetDebugMedia(value)
    \/ \E value \in BOOLEAN : SetDebugMediaBuffers(value)
    \/ \E module \in DriverModules : ImportDriver(module)
    \/ \E module \in DriverModules : CreateAudioDriver(module)

-----------------------------------------------------------------------------
(* info: dump() and its probes.                                            *)
(*                                                                         *)
(* What a probe does is its outcome: how far it gets before something it   *)
(* calls raises, if anything does.  The output is the sequence of what was *)
(* printed: blank lines, headings, the rules under them, the lines a       *)
(* function printed itself (one entry for each run of them) and            *)
(* tracebacks.  dump_al imports the OpenAL driver module and calls its     *)
(* factory, so a dump also acts on the driver modules.                     *)

\* the _try_dump calls of dump(), in the order they are written
Probes ==
    << <<"Platform", "dump_platform">>, <<"Python", "dump_python">>,
       <<"kiglent", "dump_kiglent">>, <<"kiglent.window", "dump_window">>,
       <<"kiglent.gl.glx_info", "dump_glx">>, <<"kiglent.media", "dump_media">>,
       <<"kiglent.media.ffmpeg", "dump_ffmpeg">>,
       <<"kiglent.media.drivers.openal", "dump_al">>,
       <<"kiglent.input.wintab", "dump_wintab">> >>

\* at most this many probes of one dump() do anything but print and return
\* at their last statement
MaxFailing == 2

\* a function of several prints returns, raises before its first print, or
\* raises between two prints
PrintOutcomes == {"returns", "raises", "prints and raises"}

\* dump_window: OpenGL below 3 ("insufficient"); the import or get_display
\* raises ("raises"); get_screens or Window() raises after the display line
\* ("prints and raises"); context.get_info() raises in dump_gl; a query of
\* dump_gl raises after its first line; window.close() raises; or all is well
WindowOutcomes ==
    {"returns", "insufficient", "raises", "prints and raises", "dump_gl raises",
     "dump_gl prints and raises", "close raises"}

\* dump_al: the import of the driver module fails ("not available");
\* openal.lib_openal._lib raises ("raises"); OpenALDriver(device_name) raises;
\* driver.get_version() raises; driver.get_extensions() raises; or all is well
AlOutcomes ==
    {"returns", "not available", "raises", "constructor raises", "get_version raises",
     "get_extensions raises"}

\* what each probe can do: dump_media, dump_ffmpeg and dump_wintab print once,
\* as their last statement
ProbeOutcomes(func) ==
    CASE func = "dump_window" -> WindowOutcomes
      [] func = "dump_al" -> AlOutcomes
      [] func \in {"dump_media", "dump_ffmpeg", "dump_wintab"} -> {"returns", "raises"}
      [] OTHER -> PrintOutcomes

\* '-' * 78
Rule == "------------------------------------------------------------------------------"

\* _heading: a blank line before every heading but the first of the process,
\* the heading and the rule under it
heading(st, text) ==
    [st EXCEPT !.first_heading = FALSE,
               !.output = (IF st.first_heading THEN @ ELSE Append(@, <<"blank", "">>))
                              \o << <<"heading", text>>, <<"rule", Rule>> >>]

\* the print calls of func
printed(st, func) == [st EXCEPT !.output = Append(@, <<"lines", func>>)]

\* an exception leaves func
raise_in(st, func) == [st EXCEPT !.escaped = func]

\* a probe that only prints: dump_platform, dump_python, dump_kiglent,
\* dump_glx, dump_media, dump_ffmpeg, dump_wintab
dump_printing(st, func, outcome) ==
    CASE outcome = "raises" -> raise_in(st, func)
      [] outcome = "prints and raises" -> raise_in(printed(st, func), func)
      [] OTHER -> printed(st, func)

\* dump_gl(context): context.get_info(), then three printed queries
dump_gl(st, outcome) == dump_printing(st, "dump_gl", outcome)

\* dump_window
dump_window(st, outcome) ==
    CASE outcome = "insufficient" -> printed(st, "dump_window")
      [] outcome = "raises" -> raise_in(st, "dump_window")
      [] outcome = "prints and raises" -> raise_in(printed(st, "dump_window"), "dump_window")
      [] OTHER ->
           LET h == heading(printed(st, "dump_window"), "window.context._info")
               g == dump_gl(h, CASE outcome = "dump_gl raises" -> "raises"
                                 [] outcome = "dump_gl prints and raises" -> "prints and raises"
                                 [] OTHER -> "returns")
           IN IF g.escaped = "" /\ outcome = "close raises" THEN raise_in(g, "dump_window") ELSE g

\* from kiglent.media.drivers import openal: the module body runs at the
\* first import of the process
import_openal(st) ==
    IF st.openal.imported THEN st
    ELSE [st EXCEPT !.openal = driver_module_body("openal", st.opts)]

\* openal.create_audio_driver() as dump_al calls it: the calls the factory
\* makes, as far as it gets, and the line it prints when _debug is set
call_create_audio_driver(st, outcome) ==
    LET calls == create_audio_driver("openal", st.openal, st.opts)
    IN CASE outcome = "constructor raises" ->
               raise_in([st EXCEPT !.factory = SubSeq(calls, 1, 1), !.factory_raised = TRUE],
                        "create_audio_driver")
         [] outcome = "get_version raises" /\ st.openal.debug ->
               raise_in([st EXCEPT !.factory = calls, !.factory_raised = TRUE],
                        "create_audio_driver")
         [] OTHER ->
               LET made == [st EXCEPT !.factory = calls]
               IN IF st.openal.debug THEN printed(made, "create_audio_driver") ELSE made

\* dump_al
dump_al(st, outcome) ==
    IF outcome = "not available" THEN printed(st, "dump_al")
    ELSE LET mod == import_openal(st)
         IN IF outcome = "raises" THEN raise_in(mod, "dump_al")
            ELSE LET made == call_create_audio_driver(printed(mod, "dump_al"), outcome)
                 IN CASE made.escaped # "" -> made
                      [] outcome = "get_version raises" ->
                            raise_in([made EXCEPT !.driver = <<"get_version()">>], "dump_al")
                      [] OTHER ->
                            LET all == [made EXCEPT !.driver = <<"get_version()", "get_extensions()">>]
                                \* the Version and Extensions lines follow the Library
                                \* line, or the factory's line when it printed one
                                out == IF made.openal.debug THEN printed(all, "dump_al") ELSE all
                            IN IF outcome = "get_extensions raises"
                               THEN raise_in(out, "dump_al") ELSE out

\* func()
call(st, func, outcome) ==
    CASE func = "dump_window" -> dump_window(st, outcome)
      [] func = "dump_al" -> dump_al(st, outcome)
      [] OTHER -> dump_printing(st, func, outcome)

\* a _try_dump without the try statement: what the probe raises escapes
try_dump_unguarded(st, text, func, outcome) == call(heading(st, text), func, outcome)

\* _try_dump: the heading, then the probe; the bare except catches whatever
\* it raises and prints the traceback
try_dump(st, text, func, outcome) ==
    LET r == call(heading(st, text), func, outcome)
    IN IF r.escaped # ""
       THEN [r EXCEPT !.escaped = "", !.output = Append(@, <<"traceback", func>>)]
       ELSE r

RECURSIVE dump_from(_, _, _)
\* the statements of dump() from the i-th on: an exception that escapes a
\* statement ends the function
dump_from(st, i, outcomes) ==
    IF i > Len(Probes) \/ st.escaped # "" THEN st
    ELSE dump_from(try_dump(st, Probes[i][1], Probes[i][2], outcomes[i]), i + 1, outcomes)

\* the process as a call finds it: _first_heading, the globals of the openal
\* driver module, kiglent.options; nothing printed yet, no driver made
Called(first, openal, opts) ==
    [first_heading |-> first, output |-> <<>>, escaped |-> "",
     openal |-> openal, opts |-> opts, factory |-> <<>>, factory_raised |-> FALSE,
     driver |-> <<>>]

dump(st, outcomes) == dump_from(st, 1, outcomes)

\* the outcomes of the nine probes of a dump()
DumpOutcomes ==
    UNION {{[i \in 1..Len(Probes) |-> IF i \in failing THEN f[i] ELSE "returns"] :
               f \in {f \in [failing -> (WindowOutcomes \cup AlOutcomes) \ {"returns"}] :
                         \A i \in failing : f[i] \in ProbeOutcomes(Probes[i][2])}} :
           failing \in {s \in SUBSET (1..Len(Probes)) : Cardinality(s) <= MaxFailing}}

NoDump ==
    [op |-> "", outcomes |-> <<>>, output |-> <<>>, escaped |-> "", first |-> TRUE,
     driver |-> <<>>]

\* the module just imported: _first_heading = True
InfoInit ==
    /\ first_heading = TRUE
    /\ lastDump = NoDump

\* what a call that ended in st did to the driver modules: the factory call
\* when one was made, else the import when this call was the first to import
\* the module
DriverCallAfter(st) ==
    CASE st.factory # <<>> ->
             [op |-> IF st.factory_raised THEN "create raised" ELSE "create",
              module |-> "openal", debug_media |-> options.debug_media, calls |-> st.factory]
      [] st.openal.imported /\ ~driverGlobals["openal"].imported ->
             [op |-> "import", module |-> "openal", debug_media |-> options.debug_media,
              calls |-> <<>>]
      [] OTHER -> driverCall

\* dump(), with each probe doing what outcomes says; an import of a module
\* that is already imported cannot fail
Dump(outcomes) ==
    /\ outcomes[8] = "not available" => ~driverGlobals["openal"].imported
    /\ LET st == dump(Called(first_heading, driverGlobals["openal"], options), outcomes)
       IN /\ first_heading' = st.first_heading
          /\ lastDump' = [op |-> "dump", outcomes |-> outcomes, output |-> st.output,
                          escaped |-> st.escaped, first |-> first_heading,
                          driver |-> st.driver]
          /\ driverGlobals' = [driverGlobals EXCEPT !["openal"] = st.openal]
          /\ driverCall' = DriverCallAfter(st)
    /\ UNCHANGED options
    /\ UNCHANGED otherThanInfoDrv

\* dump_window() called on its own: what it raises reaches the caller
DumpWindow(outcome) ==
    /\ LET st == dump_window(Called(first_heading, driverGlobals["openal"], options), outcome)
       IN /\ first_heading' = st.first_heading
          /\ lastDump' = [op |-> "dump_window", outcomes |-> <<outcome>>, output |-> st.output,
                          escaped |-> st.escaped, first |-> first_heading,
                          driver |-> st.driver]
    /\ UNCHANGED <<options, driverGlobals, driverCall>>
    /\ UNCHANGED otherThanInfoDrv

\* dump_al() called on its own: what it raises reaches the caller
DumpAl(outcome) ==
    /\ outcome = "not available" => ~driverGlobals["openal"].imported
    /\ LET st == dump_al(Called(first_heading, driverGlobals["openal"], options), outcome)
       IN /\ lastDump' = [op |-> "dump_al", outcomes |-> <<outcome>>, output |-> st.output,
                          escaped |-> st.escaped, first |-> first_heading,
                          driver |-> st.driver]
          /\ driverGlobals' = [driverGlobals EXCEPT !["openal"] = st.openal]
          /\ driverCall' = DriverCallAfter(st)
    /\ UNCHANGED <<first_heading, options>>
    /\ UNCHANGED otherThanInfoDrv

InfoNext ==
    \/ \E outcomes \in DumpOutcomes : Dump(outcomes)
    \/ \E outcome \in WindowOutcomes : DumpWindow(outcome)
    \/ \E outcome \in AlOutcomes : DumpAl(outcome)

-----------------------------------------------------------------------------
(* Claims about dump().                                                    *)

\* the entries of output of the given kinds, in order
RECURSIVE Only(_, _)
Only(output, kinds) ==
    IF output = <<>> THEN <<>>
    ELSE (IF output[1][1] \in kinds THEN <<output[1]>> ELSE <<>>) \o Only(Tail(output), kinds)

\* the outcomes in which an exception leaves the probe
Raising ==
    {"raises", "prints and raises", "dump_gl raises", "dump_gl prints and raises",
     "close raises", "constructor raises", "get_version raises", "get_extensions raises"}

\* the outcomes in which dump_window reaches its own heading
ReachingContextInfo == WindowOutcomes \ {"insufficient", "raises", "prints and raises"}

RECURSIVE TracebacksFrom(_, _)
\* a traceback for every probe from the i-th on that raised, in dump()'s order
TracebacksFrom(i, outcomes) ==
    IF i > Len(Probes) THEN <<>>
    ELSE (IF outcomes[i] \in Raising THEN << <<"traceback", Probes[i][2]>> >> ELSE <<>>)
            \o TracebacksFrom(i + 1, outcomes)

\* the headings of dump()'s nine _try_dump calls from the i-th to the j-th
ProbeHeadings(i, j) == [k \in 1..(j - i + 1) |-> <<"heading", Probes[k + i - 1][1]>>]

\* C20: dump() runs all nine probes in the order Platform, Python, kiglent,
\* kiglent.window, kiglent.gl.glx_info, kiglent.media, kiglent.media.ffmpeg,
\* kiglent.media.drivers.openal, kiglent.input.wintab; an exception a probe
\* raises is caught and reported and neither stops a later probe nor escapes.
C20_AllProbesRun ==
    lastDump.op = "dump" =>
        /\ lastDump.escaped = ""
        /\ Only(lastDump.output, {"heading"}) =
              ProbeHeadings(1, 4)
                 \o (IF lastDump.outcomes[4] \in ReachingContextInfo
                     THEN << <<"heading", "window.context._info">> >> ELSE <<>>)
                 \o ProbeHeadings(5, 9)
        /\ Only(lastDump.output, {"traceback"}) = TracebacksFrom(1, lastDump.outcomes)
        /\ \A i \in 1..Len(Probes) :
              lastDump.outcomes[i] \in {"returns", "insufficient", "not available"} =>
                  \E k \in 1..Len(lastDump.output) :
                      lastDump.output[k] = <<"lines", Probes[i][2]>>

\* a dump in which the first probe raised, the fourth raised inside dump_gl
\* and the last one returned
C20_Witness ==
    /\ lastDump.op = "dump"
    /\ lastDump.outcomes[1] = "raises" /\ lastDump.outcomes[4] = "dump_gl raises"
    /\ lastDump.outcomes[9] = "returns"
    /\ lastDump.output[Len(lastDump.output)] = <<"lines", "dump_wintab">>

\* the positions of the headings in the output of the last dump
HeadingAt == {i \in 1..Len(lastDump.output) : lastDump.output[i][1] = "heading"}

\* every heading after the first has exactly one blank line before it, and
\* every heading has the rule of 78 dashes under it
LaterHeadingsAndRules ==
    /\ \A i \in HeadingAt :
          /\ i < Len(lastDump.output)
          /\ lastDump.output[i + 1] = <<"rule", Rule>>
    /\ \A i \in HeadingAt :
          i > 2 => /\ lastDump.output[i - 1][1] = "blank"
                   /\ lastDump.output[i - 2][1] # "blank"

\* C26: the 'first heading' flag is reset for each dump run: in every dump(),
\* a second call in the same process included, the first heading has no blank
\* line before it, every later heading has exactly one, and every heading is
\* followed by a rule of 78 dashes.
C26_FirstHeadingPerRun ==
    lastDump.op = "dump" =>
        /\ lastDump.output[1][1] = "heading"
        /\ LaterHeadingsAndRules

\* C26, for the dump() that prints the first heading of the process and for
\* the ones called after a heading was printed
C26_FirstHeadingPerProcess ==
    lastDump.op = "dump" =>
        /\ lastDump.first => lastDump.output[1][1] = "heading"
        /\ ~lastDump.first => lastDump.output[1][1] = "blank" /\ lastDump.output[2][1] = "heading"
        /\ LaterHeadingsAndRules

-----------------------------------------------------------------------------
(* graphics/groups.py: the order in which set_state_recursive and          *)
(* unset_state_recursive visit a group's ancestry.                         *)
(*                                                                         *)
(* Groups are numbered in the order they are constructed; a group's parent *)
(* is a group constructed before it, or NoParent (None).  A group is an    *)
(* object without __bool__ or __len__: `if self.parent` tests for None.    *)

MaxGroups == 4

NoParent == 0
GroupIds == 1..MaxGroups

\* a set_state_recursive that sets the group before its parent
RECURSIVE Group_set_state_recursive_self_first(_, _)
Group_set_state_recursive_self_first(parent, g) ==
    << <<"set_state", g>> >>
        \o (IF parent[g] # NoParent
            THEN Group_set_state_recursive_self_first(parent, parent[g]) ELSE <<>>)

\* Group.set_state_recursive: the calls made, in order
RECURSIVE Group_set_state_recursive(_, _)
Group_set_state_recursive(parent, g) ==
    (IF parent[g] # NoParent THEN Group_set_state_recursive(parent, parent[g]) ELSE <<>>)
        \o << <<"set_state", g>> >>

\* Group.unset_state_recursive: the calls made, in order
RECURSIVE Group_unset_state_recursive(_, _)
Group_unset_state_recursive(parent, g) ==
    << <<"unset_state", g>> >>
        \o (IF parent[g] # NoParent THEN Group_unset_state_recursive(parent, parent[g]) ELSE <<>>)

\* Group(parent=...) for each group: any earlier group, or None
WalkInitAny ==
    /\ groupParent \in {f \in [GroupIds -> {NoParent} \cup GroupIds] : \A g \in GroupIds : f[g] < g}
    /\ walked = [op |-> "none", group |-> NoParent, calls |-> <<>>]

\* every group constructed without a parent
WalkInit ==
    /\ groupParent = [g \in GroupIds |-> NoParent]
    /\ walked = [op |-> "none", group |-> NoParent, calls |-> <<>>]

\* g.set_state_recursive()
WalkSet(g) ==
    /\ walked' = [op |-> "set_state_recursive", group |-> g,
                  calls |-> Group_set_state_recursive(groupParent, g)]
    /\ UNCHANGED groupParent
    /\ UNCHANGED otherThanWalk

\* g.unset_state_recursive()
WalkUnset(g) ==
    /\ walked' = [op |-> "unset_state_recursive", group |-> g,
                  calls |-> Group_unset_state_recursive(groupParent, g)]
    /\ UNCHANGED groupParent
    /\ UNCHANGED otherThanWalk

\* ShapeBase.draw of a shape whose group is g
WalkDraw(g) ==
    /\ walked' = [op |-> "draw", group |-> g,
                  calls |-> Group_set_state_recursive(groupParent, g)
                              \o << <<"draw", g>> >>
                              \o Group_unset_state_recursive(groupParent, g)]
    /\ UNCHANGED groupParent
    /\ UNCHANGED otherThanWalk

WalkNext ==
    \/ \E g \in GroupIds : WalkSet(g)
    \/ \E g \in GroupIds : WalkUnset(g)
    \/ \E g \in GroupIds : WalkDraw(g)

-----------------------------------------------------------------------------
(* Claims about the order of the recursive state changes.                  *)

\* the groups of calls, in order, for the calls named kind
RECURSIVE Visited(_, _)
Visited(calls, kind) ==
    IF calls = <<>> THEN <<>>
    ELSE (IF calls[1][1] = kind THEN <<calls[1][2]>> ELSE <<>>) \o Visited(Tail(calls), kind)

\* g and its ancestors
RECURSIVE Ancestry(_, _)
Ancestry(parent, g) == IF g = NoParent THEN {} ELSE {g} \cup Ancestry(parent, parent[g])

\* s runs from a root down to g, each group the parent of the next, and visits
\* each group of g's ancestry exactly once
RootToLeaf(s, g) ==
    /\ s # <<>>
    /\ groupParent[s[1]] = NoParent
    /\ s[Len(s)] = g
    /\ \A i \in 1..(Len(s) - 1) : groupParent[s[i + 1]] = s[i]
    /\ {s[i] : i \in 1..Len(s)} = Ancestry(groupParent, g)
    /\ Len(s) = Cardinality(Ancestry(groupParent, g))

\* C21: set_state_recursive() applies set_state to every group of the parent
\* chain in root-to-leaf order with the group itself last;
\* unset_state_recursive() applies unset_state in exactly the reverse order,
\* each group of the chain exactly once.
C21_VisitOrder ==
    /\ walked.op \in {"set_state_recursive", "draw"} =>
          RootToLeaf(Visited(walked.calls, "set_state"), walked.group)
    /\ walked.op \in {"unset_state_recursive", "draw"} =>
          RootToLeaf(Reverse(Visited(walked.calls, "unset_state")), walked.group)
    /\ walked.op = "set_state_recursive" => Len(walked.calls) = Cardinality(Ancestry(groupParent, walked.group))
    /\ walked.op = "unset_state_recursive" => Len(walked.calls) = Cardinality(Ancestry(groupParent, walked.group))

\* group 3, child of 2, child of 1, was set: 1, 2, 3
C21_Witness ==
    /\ groupParent[3] = 2 /\ groupParent[2] = 1 /\ groupParent[1] = NoParent
    /\ walked.op = "set_state_recursive" /\ walked.group = 3
    /\ walked.calls = << <<"set_state", 1>>, <<"set_state", 2>>, <<"set_state", 3>> >>

-----------------------------------------------------------------------------
(* shapes/__init__.py: where a shape's vertex list is held.                *)
(*                                                                         *)
(* The shape is the record of _blend_src/_blend_dest (blend), _program,    *)
(* _user_group, _group, _batch and _vertex_list; the vertex list is the    *)
(* record of the group and batch it is held under: those it was created    *)
(* with, or was last moved to by Batch.migrate / Batch.update_shader.      *)

\* get_shape_group(): group_class(blend_src, blend_dest, program, user_group)
get_shape_group(s) == <<s.blend, s.program, s.user_group>>

\* _create_vertex_list: program.vertex_list(..., self._batch, self._group, ...)
mig_create_vertex_list(s) ==
    [s EXCEPT !.vertex_list = [group |-> s.group, batch |-> s.batch]]

\* Batch.migrate(vertex_list, mode, group, batch)
migrate(vertex_list, group, batch) == [group |-> group, batch |-> batch]

\* ShapeBase.__init__
mig_init(batch, group, program) ==
    LET s0 == [blend |-> 1, program |-> program, user_group |-> group, batch |-> batch,
               group |-> <<1, program, group>>, vertex_list |-> [group |-> <<>>, batch |-> None]]
    IN mig_create_vertex_list(s0)

MigResult(s, how) == [shape |-> s, how |-> how]

\* the blend_mode setter
blend_mode_setter(s, modes) ==
    IF modes = s.blend THEN MigResult(s, "return")
    ELSE LET s1 == [s EXCEPT !.blend = modes]
             s2 == [s1 EXCEPT !.group = get_shape_group(s1)]
         IN IF s2.batch # None
            THEN MigResult([s2 EXCEPT !.vertex_list = migrate(@, s2.group, s2.batch)], "migrate")
            ELSE MigResult(mig_create_vertex_list(s2), "recreate")

\* the program setter; domain_kept is what Batch.update_shader returns
program_setter(s, program, domain_kept) ==
    IF s.program = program THEN MigResult(s, "return")
    ELSE LET s1 == [s EXCEPT !.program = program]
             s2 == [s1 EXCEPT !.group = get_shape_group(s1)]
         IN IF s2.batch # None /\ domain_kept
            THEN MigResult([s2 EXCEPT !.vertex_list = migrate(@, s2.group, s2.batch)],
                           "update_shader")
            ELSE MigResult(mig_create_vertex_list(s2), "recreate")

\* the group setter: with a batch, migrate; without one, nothing more
group_setter(s, group) ==
    IF s.user_group = group THEN MigResult(s, "return")
    ELSE LET s1 == [s EXCEPT !.user_group = group]
             s2 == [s1 EXCEPT !.group = get_shape_group(s1)]
         IN IF s2.batch # None
            THEN MigResult([s2 EXCEPT !.vertex_list = migrate(@, s2.group, s2.batch)], "migrate")
            ELSE MigResult(s2, "nothing")

\* the batch setter
batch_setter(s, batch) ==
    IF s.batch = batch THEN MigResult(s, "return")
    ELSE IF batch # None /\ s.batch # None
    THEN MigResult([s EXCEPT !.vertex_list = migrate(@, s.group, batch), !.batch = batch],
                   "migrate")
    ELSE MigResult(mig_create_vertex_list([s EXCEPT !.batch = batch]), "recreate")

MigInit ==
    /\ mshape = mig_init(None, None, 1)
    /\ migOp = [op |-> "__init__", how |-> "create"]

\* the shape as any constructor call leaves it
MigInitAny ==
    /\ \E b \in Batches \cup {None}, g \in Groups \cup {None}, p \in Programs :
          mshape = mig_init(b, g, p)
    /\ migOp = [op |-> "__init__", how |-> "create"]

AssignBlendMode(modes) ==
    /\ LET r == blend_mode_setter(mshape, modes)
       IN mshape' = r.shape /\ migOp' = [op |-> "blend_mode", how |-> r.how]
    /\ UNCHANGED otherThanMig

AssignProgram(program, domain_kept) ==
    /\ LET r == program_setter(mshape, program, domain_kept)
       IN mshape' = r.shape /\ migOp' = [op |-> "program", how |-> r.how]
    /\ UNCHANGED otherThanMig

AssignGroup(group) ==
    /\ LET r == group_setter(mshape, group)
       IN mshape' = r.shape /\ migOp' = [op |-> "group", how |-> r.how]
    /\ UNCHANGED otherThanMig

AssignBatch(batch) ==
    /\ LET r == batch_setter(mshape, batch)
       IN mshape' = r.shape /\ migOp' = [op |-> "batch", how |-> r.how]
    /\ UNCHANGED otherThanMig

MigNext ==
    \/ \E modes \in BlendModes : AssignBlendMode(modes)
    \/ \E program \in Programs, domain_kept \in BOOLEAN : AssignProgram(program, domain_kept)
    \/ \E group \in Groups \cup {None} : AssignGroup(group)
    \/ \E batch \in Batches \cup {None} : AssignBatch(batch)

-----------------------------------------------------------------------------
(* Claims about where the vertex list is held.                             *)

HeldUnderCurrent ==
    /\ mshape.vertex_list.group = get_shape_group(mshape)
    /\ mshape.vertex_list.batch = mshape.batch

\* C22: after assigning a new blend_mode, program, group or batch to a live
\* shape, with or without a batch, the vertex list is the one held under the
\* shape's current derived group and current batch: the change was applied in
\* place by migrate / update_shader, or the vertex list was recreated.
C22_HeldUnderCurrent ==
    /\ HeldUnderCurrent
    /\ (migOp.op # "__init__" /\ migOp.how # "return") =>
          migOp.how \in {"migrate", "update_shader", "recreate"}

\* what does hold: an assignment that migrated or recreated leaves the vertex
\* list under the current derived group and batch
C22_WhenMoved ==
    migOp.how \in {"create", "migrate", "update_shader", "recreate"} => HeldUnderCurrent

-----------------------------------------------------------------------------
(* shapes/__init__.py: ShapeBase.update.                                   *)
(*                                                                         *)
(* A call is the set of the keyword arguments it supplies (the others are  *)
(* None) and the record of their values.  writes lists the attributes of   *)
(* the vertex list the call assigns, in order.                             *)

MaxUpdates == 2          \* update calls made on one shape
MaxSupplied == 2         \* at most this many keyword arguments in one update call

UpdateFields ==
    {"x", "y", "z", "anchor_x", "anchor_y", "visible", "rotation", "color", "opacity"}

UpdateValues ==
    {[x |-> 5, y |-> 7, z |-> 1, anchor_x |-> 2, anchor_y |-> 3, visible |-> FALSE,
      rotation |-> 90, color |-> <<0, 0, 255>>, opacity |-> 128],
     [x |-> 0, y |-> 0, z |-> 0, anchor_x |-> 0, anchor_y |-> 0, visible |-> TRUE,
      rotation |-> 0, color |-> <<255, 0, 0, 64>>, opacity |-> 255]}

\* an update that recomputes the vertices on every call
ShapeBase_update_recomputing(s, supplied, v) ==
    [shape |-> [x |-> IF "x" \in supplied THEN v.x ELSE s.x,
                y |-> IF "y" \in supplied THEN v.y ELSE s.y,
                z |-> IF "z" \in supplied THEN v.z ELSE s.z,
                anchor_x |-> IF "anchor_x" \in supplied THEN v.anchor_x ELSE s.anchor_x,
                anchor_y |-> IF "anchor_y" \in supplied THEN v.anchor_y ELSE s.anchor_y,
                visible |-> IF "visible" \in supplied THEN v.visible ELSE s.visible,
                rotation |-> IF "rotation" \in supplied THEN v.rotation ELSE s.rotation,
                rgba |-> IF "color" \in supplied
                         THEN Rgb(v.color) \o <<IF "opacity" \in supplied THEN v.opacity
                                                 ELSE s.rgba[4]>>
                         ELSE IF "opacity" \in supplied THEN Rgb(s.rgba) \o <<v.opacity>>
                         ELSE s.rgba],
     writes |-> <<"translation", "position">>]

\* ShapeBase.update
ShapeBase_update(s, supplied, v) ==
    LET translation == "x" \in supplied \/ "y" \in supplied
        verticles == "anchor_x" \in supplied \/ "anchor_y" \in supplied
                        \/ "visible" \in supplied
        s1 == [s EXCEPT !.x = IF "x" \in supplied THEN v.x ELSE @,
                        !.y = IF "y" \in supplied THEN v.y ELSE @]
        w1 == IF translation THEN <<"translation">> ELSE <<>>
        \* self.z = z: the z setter
        s2 == [s1 EXCEPT !.z = IF "z" \in supplied THEN v.z ELSE @]
        w2 == IF "z" \in supplied THEN Append(w1, "zposition") ELSE w1
        s3 == [s2 EXCEPT !.anchor_x = IF "anchor_x" \in supplied THEN v.anchor_x ELSE @,
                         !.anchor_y = IF "anchor_y" \in supplied THEN v.anchor_y ELSE @,
                         !.visible = IF "visible" \in supplied THEN v.visible ELSE @]
        w3 == IF verticles THEN Append(w2, "position") ELSE w2
        \* self.rotation = rotation: the rotation setter
        s4 == [s3 EXCEPT !.rotation = IF "rotation" \in supplied THEN v.rotation ELSE @]
        w4 == IF "rotation" \in supplied THEN Append(w3, "rotation") ELSE w3
        s5 == IF "color" \in supplied
              THEN [s4 EXCEPT !.rgba = Rgb(v.color) \o <<IF "opacity" \in supplied
                                                          THEN v.opacity ELSE s4.rgba[4]>>]
              ELSE IF "opacity" \in supplied
              THEN [s4 EXCEPT !.rgba = Rgb(s4.rgba) \o <<v.opacity>>]
              ELSE s4
        w5 == IF "color" \in supplied \/ "opacity" \in supplied THEN Append(w4, "colors")
              ELSE w4
    IN [shape |-> s5, writes |-> w5]

NoUpdate == [supplied |-> {}, values |-> <<>>, before |-> <<>>, writes |-> <<>>, called |-> FALSE,
             calls |-> 0]

\* a shape as its constructor leaves it
UpdateInit ==
    /\ ushape = [x |-> 0, y |-> 0, z |-> 0, anchor_x |-> 0, anchor_y |-> 0, visible |-> TRUE,
                 rotation |-> 0, rgba |-> <<255, 255, 255, 255>>]
    /\ lastUpdate = NoUpdate

\* shape.update(**{name: values[name] for name in supplied})
UpdateShape(supplied, values) ==
    /\ lastUpdate.calls < MaxUpdates
    /\ LET r == ShapeBase_update(ushape, supplied, values)
       IN /\ ushape' = r.shape
          /\ lastUpdate' = [supplied |-> supplied,
                            values |-> [f \in supplied |-> values[f]], before |-> ushape,
                            writes |-> r.writes, called |-> TRUE,
                            calls |-> lastUpdate.calls + 1]
    /\ UNCHANGED otherThanUpdate

UpdateNext ==
    \E supplied \in {a \in SUBSET UpdateFields : Cardinality(a) <= MaxSupplied},
       values \in UpdateValues : UpdateShape(supplied, values)

-----------------------------------------------------------------------------
(* Claims about ShapeBase.update.                                          *)

Written == {lastUpdate.writes[i] : i \in 1..Len(lastUpdate.writes)}

\* C23: update(...) leaves every omitted field unchanged and performs only the
\* uploads the supplied fields require: only x and/or y writes only the
\* translation attribute; only rotation only the rotation attribute; only
\* color and/or opacity only the color attribute; an anchor or visible writes
\* the vertex positions; update() with no arguments writes nothing.
C23_MinimalUpdate ==
    lastUpdate.called =>
        LET a == lastUpdate.supplied
            b == lastUpdate.before
        IN /\ \A f \in {"x", "y", "z", "anchor_x", "anchor_y", "visible", "rotation"} :
                 ushape[f] = IF f \in a THEN lastUpdate.values[f] ELSE b[f]
           /\ (a \cap {"color", "opacity"} = {}) => ushape.rgba = b.rgba
           /\ "color" \notin a => Rgb(ushape.rgba) = Rgb(b.rgba)
           /\ "opacity" \notin a => ushape.rgba[4] = b.rgba[4]
           /\ (a # {} /\ a \subseteq {"x", "y"}) => Written = {"translation"}
           /\ a = {"rotation"} => Written = {"rotation"}
           /\ (a # {} /\ a \subseteq {"color", "opacity"}) => Written = {"colors"}
           /\ (a \cap {"anchor_x", "anchor_y", "visible"} # {}) => "position" \in Written
           /\ (a \cap {"anchor_x", "anchor_y", "visible"} = {}) => "position" \notin Written
           /\ a = {} => lastUpdate.writes = <<>>
           /\ Len(lastUpdate.writes) = Cardinality(Written)

\* update(x=5, y=7) moved the shape and wrote only the translation
C23_Witness ==
    /\ lastUpdate.called
    /\ lastUpdate.supplied = {"x", "y"}
    /\ ushape.x = 5 /\ ushape.y = 7
    /\ lastUpdate.before.x = 0
    /\ lastUpdate.writes = <<"translation">>

-----------------------------------------------------------------------------
(* shapes/lines.py: MultiLine; shapes/curves.py: Arc.                      *)
(*                                                                         *)
(* The vertex count a shape declares (_num_verts) and the vertices its     *)
(* _get_vertices() generates.  An optional argument is a sequence of at    *)
(* most one value; _get_vertices is modelled by the number of vertices (x, *)
(* y pairs) in the list it returns, or by what it raises.                  *)

MaxPoints == 4           \* coordinates of a MultiLine

Polyline == <<<<0, 0>>, <<10, 0>>, <<10, 10>>, <<0, 10>>, <<5, 5>>, <<7, 2>>>>

\* the lists of coordinates a caller passes, the empty one among them
CoordinateLists == {SubSeq(Polyline, 1, n) : n \in 0..MaxPoints}

\* radii of an arc
Radii == {0, 10, 50}

\* angles of an arc, in the unit the caller passes; FullTurn is math.tau
ArcAngles == {"90.0", "360.0", "math.tau"}
FullTurn == "math.tau"

\* segments or max(14, int(radius / 1.25))
ArcSegments(segments, radius) ==
    IF segments # <<>> /\ segments[1] # 0 THEN segments[1]
    ELSE IF (radius * 4) \div 5 > 14 THEN (radius * 4) \div 5 ELSE 14

\* the angle in degrees where it is a whole number of them; math.tau, passed
\* as an angle, is 6.28... degrees
WholeDegrees(angle) ==
    CASE angle = "90.0" -> <<90>>
      [] angle = "360.0" -> <<360>>
      [] OTHER -> <<>>

\* _get_segment divides by math.sin(math.acos(v_np2p3.dot(v_miter2))).  On an
\* arc of two or more segments of half a turn each, the next segment runs back
\* along the current one through the centre: the two normals cancel but for
\* the rounding of the points, their normalized sum lies along the segment,
\* the sine is 0.0 and the division raises ZeroDivisionError.  With radius 0
\* every point is the centre, all vectors are zero and nothing is divided
FoldsBack(s) ==
    /\ s.radius # 0
    /\ s.segments >= 2
    /\ WholeDegrees(s.angle) # <<>>
    /\ WholeDegrees(s.angle)[1] = 180 * s.segments

\* MultiLine.__init__; raised is what the constructor raised, and the caller
\* has the object only when that is nothing.  self._coordinates[0] raises
\* IndexError on no coordinates, before ShapeBase.__init__ sets _num_verts
MultiLine_init(coordinates, closed) ==
    [cls |-> "MultiLine", coordinates |-> coordinates, closed |-> closed, visible |-> TRUE,
     radius |-> 0, segments |-> 0, angle |-> "",
     num_verts |-> IF coordinates = <<>> THEN 0
                   ELSE (Len(coordinates) - 1 + (IF closed THEN 1 ELSE 0)) * 6,
     raised |-> IF coordinates = <<>> THEN "IndexError" ELSE ""]

\* Arc._get_vertices: six vertices for each segment between two of the
\* segments + 1 points, and six for the closing segment; _get_segment raises
\* on the first segment that folds back
Arc_get_vertices(s) ==
    IF ~s.visible THEN [raised |-> "", count |-> s.num_verts]
    ELSE IF FoldsBack(s) THEN [raised |-> "ZeroDivisionError", count |-> 0]
    ELSE LET points == s.segments + 1
         IN [raised |-> "", count |-> 6 * (points - 1) + (IF s.closed THEN 6 ELSE 0)]

\* Arc.__init__: the fields, then ShapeBase.__init__, whose
\* _create_vertex_list calls _get_vertices
Arc_init(radius, segments, angle, closed) ==
    LET segs == ArcSegments(segments, radius)
        \* closed if abs(math.tau - self._angle) > 1e-9 else False
        c == IF angle # FullTurn THEN closed ELSE FALSE
        s == [cls |-> "Arc", coordinates |-> <<>>, closed |-> c, visible |-> TRUE,
              radius |-> radius, segments |-> segs, angle |-> angle,
              num_verts |-> segs * 6 + (IF c THEN 6 ELSE 0), raised |-> ""]
    IN [s EXCEPT !.raised = Arc_get_vertices(s).raised]

\* MultiLine._get_vertices: six vertices for each segment between two points
MultiLine_get_vertices(s) ==
    IF ~s.visible THEN s.num_verts
    ELSE LET coords == IF s.closed THEN Append(s.coordinates, s.coordinates[1])
                       ELSE s.coordinates
         IN 6 * (Len(coords) - 1)

\* shape._get_vertices(): what it raised, or the number of vertices returned
get_vertices(s) ==
    IF s.cls = "MultiLine" THEN [raised |-> "", count |-> MultiLine_get_vertices(s)]
    ELSE Arc_get_vertices(s)

\* _update_vertices: self._vertex_list.position[:] = self._get_vertices();
\* nothing is written when _get_vertices raises
update_vertices(s) ==
    LET v == get_vertices(s)
    IN [position |-> IF v.raised = "" THEN <<v.count>> ELSE <<>>, raised |-> v.raised]

\* MultiLine.update(coordinates=, closed=, visible=): closed is stored first;
\* coordinates[0] of an empty list then raises IndexError, with the
\* coordinates and the visibility as they were and nothing written
MultiLine_update(s, coordinates, closed, visible) ==
    LET s1 == IF closed # <<>> THEN [s EXCEPT !.closed = closed[1]] ELSE s
        s2 == IF coordinates # <<>> THEN [s1 EXCEPT !.coordinates = coordinates[1]] ELSE s1
        s3 == IF visible # <<>> THEN [s2 EXCEPT !.visible = visible[1]] ELSE s2
        verticles == closed # <<>> \/ coordinates # <<>> \/ visible # <<>>
    IN IF coordinates # <<>> /\ coordinates[1] = <<>>
       THEN [shape |-> s1, position |-> <<>>, raised |-> "IndexError"]
       ELSE [shape |-> s3,
             position |-> IF verticles THEN update_vertices(s3).position ELSE <<>>,
             raised |-> IF verticles THEN update_vertices(s3).raised ELSE ""]

\* Arc.update(radius=, angle=, closed=, visible=): the fields are stored
\* before _update_vertices runs, and stay stored when it raises; _segments is
\* not computed again
Arc_update(s, radius, angle, closed, visible) ==
    LET s0 == IF radius # <<>> THEN [s EXCEPT !.radius = radius[1]] ELSE s
        s1 == IF angle # <<>> THEN [s0 EXCEPT !.angle = angle[1]] ELSE s0
        s2 == IF closed # <<>> THEN [s1 EXCEPT !.closed = closed[1]] ELSE s1
        s3 == IF visible # <<>> THEN [s2 EXCEPT !.visible = visible[1]] ELSE s2
        verticles == radius # <<>> \/ angle # <<>> \/ closed # <<>> \/ visible # <<>>
    IN [shape |-> s3, position |-> IF verticles THEN update_vertices(s3).position ELSE <<>>,
        raised |-> IF verticles THEN update_vertices(s3).raised ELSE ""]

\* the constructor calls
ConstructorCalls ==
    {MultiLine_init(c, closed) : c \in CoordinateLists, closed \in BOOLEAN}
    \cup {Arc_init(r, segs, a, closed) : r \in Radii, segs \in Optional({1, 2, 3}),
                                        a \in ArcAngles, closed \in BOOLEAN}

\* the shapes the constructors returned
ConstructedLines == {s \in ConstructorCalls : s.raised = ""}

\* the idle component: a two-point line
VertsInit ==
    /\ vshape = MultiLine_init(SubSeq(Polyline, 1, 2), FALSE)
    /\ vertsOp = [op |-> "init", position |-> <<>>, raised |-> ""]

\* a MultiLine or an Arc just constructed; _create_vertex_list uploads _get_vertices()
VertsInitAny ==
    /\ vshape \in ConstructedLines
    /\ vertsOp = [op |-> "init", position |-> update_vertices(vshape).position, raised |-> ""]

\* multiline.update(...)
UpdateMultiLine(coordinates, closed, visible) ==
    /\ vshape.cls = "MultiLine"
    /\ LET r == MultiLine_update(vshape, coordinates, closed, visible)
       IN /\ vshape' = r.shape
          /\ vertsOp' = [op |-> "update", position |-> r.position, raised |-> r.raised]
    /\ UNCHANGED otherThanVerts

\* arc.update(...)
UpdateArc(radius, angle, closed, visible) ==
    /\ vshape.cls = "Arc"
    /\ LET r == Arc_update(vshape, radius, angle, closed, visible)
       IN /\ vshape' = r.shape
          /\ vertsOp' = [op |-> "update", position |-> r.position, raised |-> r.raised]
    /\ UNCHANGED otherThanVerts

VertsNext ==
    \/ \E coordinates \in Optional(CoordinateLists), closed \in Optional(BOOLEAN),
          visible \in Optional(BOOLEAN) : UpdateMultiLine(coordinates, closed, visible)
    \/ \E radius \in Optional(Radii), angle \in Optional(ArcAngles),
          closed \in Optional(BOOLEAN), visible \in Optional(BOOLEAN) :
             UpdateArc(radius, angle, closed, visible)

-----------------------------------------------------------------------------
(* Claims about the vertex counts of MultiLine and Arc.                    *)

\* the count the formula gives on the shape's current values
FormulaCount(s) ==
    IF s.cls = "MultiLine" THEN (Len(s.coordinates) - 1 + (IF s.closed THEN 1 ELSE 0)) * 6
    ELSE s.segments * 6 + (IF s.closed THEN 6 ELSE 0)

\* _get_vertices() returns a list of n vertices
Generates(s, n) == get_vertices(s).raised = "" /\ get_vertices(s).count = n

\* C24: after construction and any sequence of update(...) calls, the declared
\* vertex count equals (N-1+closed)*6 for a MultiLine and segments*6 + (6 if
\* closed else 0) for an Arc on the current values, and equals the number of
\* vertices _get_vertices() generates when the shape is visible.
C24_VertexCount ==
    /\ vshape.num_verts = FormulaCount(vshape)
    /\ vshape.visible => Generates(vshape, vshape.num_verts)

\* C24, at construction: the same, for a shape no update has touched
C24_AtConstruction ==
    vertsOp.op = "init" =>
        /\ vshape.num_verts = FormulaCount(vshape)
        /\ Generates(vshape, vshape.num_verts)

\* C24, what the updates keep: the vertices _get_vertices() generates for a
\* visible shape, when it generates any, follow the formula
C24_GeneratedCount ==
    vshape.visible /\ get_vertices(vshape).raised = "" =>
        get_vertices(vshape).count = FormulaCount(vshape)

\* C24, the declared count alone: no update(...) recomputes it
C24_DeclaredKept == [][vshape'.num_verts = vshape.num_verts]_vars

\* an update(angle=360.0) of an Arc of two segments raised: the angle is
\* stored and no position was written
C24_UpdateRaised ==
    /\ vertsOp.op = "update" /\ vertsOp.raised = "ZeroDivisionError"
    /\ vshape.angle = "360.0" /\ vertsOp.position = <<>>

-----------------------------------------------------------------------------
(* Claims about the audio driver factories.                                *)

DebugOutput == {"print('OpenAL', get_version())", "dump_debug_info()"}

Debugged(calls) == \E i \in 1..Len(calls) : calls[i] \in DebugOutput

\* C25: both create_audio_driver factories read the debug_media option at call
\* time: a call prints the OpenAL version (OpenAL) or dumps the debug info
\* (PulseAudio) exactly when the option is set at that call, whatever it was
\* before.
C25_ReadAtCall ==
    driverCall.op = "create" => (Debugged(driverCall.calls) <=> driverCall.debug_media)

\* C25, what the factories do: the debug output follows the option as it was
\* when the module was imported
C25_ReadAtImport ==
    driverCall.op = "create" =>
        (Debugged(driverCall.calls) <=> driverGlobals[driverCall.module].debug)

-----------------------------------------------------------------------------
(* kiglent/event.py: the registration table of one EventDispatcher.        *)
(*                                                                         *)
(* _events is a defaultdict of deques: reading _events[event] creates the  *)
(* deque, _events.get(event) does not.  A deque that is changed while a    *)
(* for loop iterates over it makes the loop's next step raise              *)
(* RuntimeError.                                                           *)

MaxDeque == 2            \* callables registered for one event

RegCallables == {"A", "B"}
RegEvents == {"on_draw", "on_resize"}

\* self._events[event]: the defaultdict inserts an empty deque for a missing key
EventsItem(evs, e) == IF e \in DOMAIN evs THEN evs ELSE DictSet(evs, e, <<>>)

\* self._events[event].extendleft(func): the items are put at the left one by one
extend_event(evs, e, funcs) == DictSet(evs, e, Reverse(funcs) \o EventsGet(evs, e))

\* for event, func in functions.items(): self.add_event(event, func)
RECURSIVE update_events(_, _)
update_events(evs, functions) ==
    IF functions = <<>> THEN evs
    ELSE update_events(add_event(evs, functions[1][1], functions[1][2]), Tail(functions))

\* return self._events.get(event).popleft()
pop_event(evs, e) ==
    IF e \notin DOMAIN evs THEN [events |-> evs, raised |-> "AttributeError", value |-> ""]
    ELSE IF evs[e] = <<>> THEN [events |-> evs, raised |-> "IndexError", value |-> ""]
    ELSE [events |-> DictSet(evs, e, Tail(evs[e])), raised |-> "", value |-> Head(evs[e])]

\* self._events[event].remove(func)
remove_event(evs, e, f) ==
    LET evs1 == EventsItem(evs, e)
    IN IF \E i \in 1..Len(evs1[e]) : evs1[e][i] = f
       THEN [events |-> DictSet(evs1, e, DequeRemove(evs1[e], f)), raised |-> "", value |-> ""]
       ELSE [events |-> evs1, raised |-> "ValueError", value |-> ""]

\* if self._events: return event in self._events;  return False
has_event(evs, e) == IF DOMAIN evs # {} THEN e \in DOMAIN evs ELSE FALSE

\* if self._events: return set(self._events.keys());  return set()
get_events(evs) == IF DOMAIN evs # {} THEN DOMAIN evs ELSE {}

\* what a callable does with its dispatcher when it is called
NoAct == [op |-> "none", event |-> "", func |-> ""]
Acts ==
    {NoAct}
    \cup [op : {"add_event", "remove_event"}, event : RegEvents, func : RegCallables]
    \cup [op : {"pop_event"}, event : RegEvents, func : {""}]

\* the callable's operation on the table
ApplyAct(evs, act) ==
    CASE act.op = "add_event" ->
            [events |-> add_event(evs, act.event, act.func), raised |-> "", value |-> ""]
      [] act.op = "remove_event" -> remove_event(evs, act.event, act.func)
      [] act.op = "pop_event" -> pop_event(evs, act.event)
      [] OTHER -> [events |-> evs, raised |-> "", value |-> ""]

\* for func in functions: if func(*args, **kwargs): return True
\* with callables that act on the dispatcher.  fs is the deque as it was when the
\* loop began, i the position of the iterator, mutated whether the deque has
\* changed since: the iterator then raises at its next step.
RECURSIVE IterateFunctions(_, _, _, _, _, _, _)
IterateFunctions(fs, i, evs, e, acts, ret, mutated) ==
    IF mutated THEN [res |-> "raise", raised |-> "RuntimeError", visited |-> <<>>, events |-> evs]
    ELSE IF i > Len(fs) THEN [res |-> "False", raised |-> "", visited |-> <<>>, events |-> evs]
    ELSE LET f == fs[i]
             done == ApplyAct(evs, acts[f])
         IN IF done.raised # ""
            THEN [res |-> "raise", raised |-> done.raised, visited |-> <<f>>,
                  events |-> done.events]
            ELSE IF Truthy(ret[f])
            THEN [res |-> "True", raised |-> "", visited |-> <<f>>, events |-> done.events]
            ELSE LET rest == IterateFunctions(fs, i + 1, done.events, e, acts, ret,
                                              EventsGet(done.events, e) # EventsGet(evs, e))
                 IN [rest EXCEPT !.visited = <<f>> \o @]

\* dispatch_event(event) of a dispatcher without downstream handlers
dispatch_event_acting(evs, e, acts, ret) ==
    IterateFunctions(EventsGet(evs, e), 1, evs, e, acts, ret, FALSE)

NoRegCall == [op |-> "none", event |-> "", raised |-> "", before |-> EmptyDict,
              visited |-> <<>>, act |-> NoAct, falsy |-> FALSE]

\* a dispatcher just constructed (of a class without class events)
RegInit ==
    /\ regEvents = EmptyDict
    /\ regCall = NoRegCall

\* the record of a call; a dispatch also records the table it started with
RegRecord(op, e, raised) ==
    [NoRegCall EXCEPT !.op = op, !.event = e, !.raised = raised,
                      !.before = IF op \in {"dispatch_event", "dispatch_acting"}
                                 THEN regEvents ELSE EmptyDict]

\* dispatcher.add_event(e, f)
RegAddEvent(e, f) ==
    /\ Len(EventsGet(regEvents, e)) < MaxDeque
    /\ regEvents' = add_event(regEvents, e, f)
    /\ regCall' = RegRecord("add_event", e, "")
    /\ UNCHANGED otherThanReg

\* dispatcher.extend_event(e, funcs)
RegExtendEvent(e, funcs) ==
    /\ Len(EventsGet(regEvents, e)) + Len(funcs) <= MaxDeque
    /\ regEvents' = extend_event(regEvents, e, funcs)
    /\ regCall' = RegRecord("extend_event", e, "")
    /\ UNCHANGED otherThanReg

\* dispatcher.update_events(**functions)
RegUpdateEvents(functions) ==
    /\ \A i \in 1..Len(functions) : Len(EventsGet(regEvents, functions[i][1])) < MaxDeque
    /\ regEvents' = update_events(regEvents, functions)
    /\ regCall' = RegRecord("update_events", "", "")
    /\ UNCHANGED otherThanReg

\* dispatcher.pop_event(e)
RegPopEvent(e) ==
    /\ LET r == pop_event(regEvents, e)
       IN /\ regEvents' = r.events
          /\ regCall' = RegRecord("pop_event", e, r.raised)
    /\ UNCHANGED otherThanReg

\* dispatcher.remove_event(e, f)
RegRemoveEvent(e, f) ==
    /\ LET r == remove_event(regEvents, e, f)
       IN /\ regEvents' = r.events
          /\ regCall' = RegRecord("remove_event", e, r.raised)
    /\ UNCHANGED otherThanReg

\* dispatcher.dispatch_event(e) with callables that only return
RegDispatch(e, ret) ==
    /\ LET r == dispatch_event([d \in Dispatchers |-> regEvents],
                               [d \in Dispatchers |-> <<>>], "d1", e, NoArg, ret, EmptyDict)
       IN regCall' = [RegRecord("dispatch_event", e, "") EXCEPT
                          !.visited = [i \in 1..Len(r.trace) |-> r.trace[i].target]]
    /\ UNCHANGED regEvents
    /\ UNCHANGED otherThanReg

\* dispatcher.dispatch_event(e) where callable A acts on the dispatcher, returns
\* retA, and every other callable returns None
RegDispatchActing(e, act, retA) ==
    /\ LET r == dispatch_event_acting(regEvents, e,
                                      [f \in RegCallables |-> IF f = "A" THEN act ELSE NoAct],
                                      [f \in RegCallables |->
                                          IF f = "A" THEN retA ELSE EVENT_UNHANDLED])
       IN /\ \A name \in DOMAIN r.events : Len(r.events[name]) <= MaxDeque
          /\ regEvents' = r.events
          /\ regCall' = [RegRecord("dispatch_acting", e, r.raised) EXCEPT
                            !.visited = r.visited, !.act = act, !.falsy = ~Truthy(retA)]
    /\ UNCHANGED otherThanReg

RegNext ==
    \/ \E e \in RegEvents, f \in RegCallables : RegAddEvent(e, f)
    \/ \E e \in RegEvents, funcs \in {<<>>, <<"A">>, <<"A", "B">>} : RegExtendEvent(e, funcs)
    \/ \E functions \in {<<>>, << <<"on_draw", "A">> >>,
                         << <<"on_draw", "B">>, <<"on_resize", "A">> >>} :
          RegUpdateEvents(functions)
    \/ \E e \in RegEvents : RegPopEvent(e)
    \/ \E e \in RegEvents, f \in RegCallables : RegRemoveEvent(e, f)
    \/ \E e \in RegEvents, ret \in [RegCallables -> PyReturns] : RegDispatch(e, ret)
    \/ \E e \in RegEvents, act \in Acts \ {NoAct}, retA \in PyReturns :
          RegDispatchActing(e, act, retA)

-----------------------------------------------------------------------------
(* Claims about the registration table.                                    *)

\* the events with at least one callable registered
WithCallables(evs) == {e \in DOMAIN evs : evs[e] # <<>>}

\* C27: after any sequence of add_event, extend_event, update_events,
\* pop_event, remove_event (failing calls included) and dispatch_event,
\* has_event(name) is true exactly when at least one callable is registered for
\* name and get_events() is exactly the set of such names; dispatch_event never
\* changes the registration table.
C27_TableQueries ==
    /\ \A e \in RegEvents : has_event(regEvents, e) <=> e \in WithCallables(regEvents)
    /\ get_events(regEvents) = WithCallables(regEvents)
    /\ regCall.op = "dispatch_event" => regEvents = regCall.before

\* C27, what the queries do report: the keys of the table, and a dispatch with
\* callables that only return leaves the table as it was
C27_KeysReported ==
    /\ \A e \in RegEvents : has_event(regEvents, e) <=> e \in DOMAIN regEvents
    /\ get_events(regEvents) = DOMAIN regEvents
    /\ WithCallables(regEvents) \subseteq get_events(regEvents)
    /\ regCall.op = "dispatch_event" => regEvents = regCall.before

\* the last dispatch called A, which changed the deque of the dispatched event
\* and returned a falsy value
ActedOnDispatched ==
    /\ regCall.op = "dispatch_acting"
    /\ regCall.falsy
    /\ regCall.act.event = regCall.event
    /\ \E i \in 1..Len(regCall.visited) : regCall.visited[i] = "A"
    /\ regCall.raised \notin {"ValueError", "IndexError", "AttributeError"}

\* the callables of before that are still in after, in the order of before
RECURSIVE StillRegistered(_, _)
StillRegistered(before, after) ==
    IF before = <<>> THEN <<>>
    ELSE (IF \E i \in 1..Len(after) : after[i] = Head(before) THEN <<Head(before)>> ELSE <<>>)
            \o StillRegistered(Tail(before), after)

\* C28: a callable invoked by dispatch_event may register or remove a callable
\* for the event being dispatched and return a falsy value: the dispatch still
\* completes without failing, having visited each callable that was registered
\* when it started and has not been removed since.
C28_DispatchCompletes ==
    ActedOnDispatched =>
        /\ regCall.raised = ""
        /\ \A f \in RegCallables :
              ((\E i \in 1..Len(EventsGet(regCall.before, regCall.event)) :
                    EventsGet(regCall.before, regCall.event)[i] = f)
               /\ (\E i \in 1..Len(EventsGet(regEvents, regCall.event)) :
                    EventsGet(regEvents, regCall.event)[i] = f))
              => \E i \in 1..Len(regCall.visited) : regCall.visited[i] = f

\* C28, what happens instead: the loop's next step raises RuntimeError, and no
\* callable after the acting one is visited
C28_DispatchFails ==
    ActedOnDispatched =>
        /\ regCall.raised = "RuntimeError"
        /\ regCall.visited[Len(regCall.visited)] = "A"

-----------------------------------------------------------------------------
(* shapes/__init__.py: update(color=c) against the color setter.           *)
(*                                                                         *)
(* Each operation stores, next to what it did, what the other way of       *)
(* setting the colour gives from the same shape.                           *)

\* the colours assigned: RGB and RGBA values
SameColors == ColorValues \cup {<<0, 255, 0>>, <<0, 255, 0, 64>>}

\* the keyword arguments of update(color=values)
ColorOnly(values) ==
    [x |-> 0, y |-> 0, z |-> 0, anchor_x |-> 0, anchor_y |-> 0, visible |-> TRUE,
     rotation |-> 0, color |-> values, opacity |-> 255]

\* shape.update(color=values): the stored colour afterwards
update_color(s, values) == ShapeBase_update(s, {"color"}, ColorOnly(values)).shape.rgba

NoSameOp == [op |-> "none", values |-> <<>>, before |-> <<>>, other |-> <<>>]

\* a shape as its constructor leaves it
SameInit ==
    /\ eshape = [x |-> 0, y |-> 0, z |-> 0, anchor_x |-> 0, anchor_y |-> 0, visible |-> TRUE,
                 rotation |-> 0, rgba |-> Shape_init(<<255, 255, 255, 255>>)]
    /\ sameOp = NoSameOp

\* a shape constructed with any colour
SameInitAny ==
    /\ eshape \in {[x |-> 0, y |-> 0, z |-> 0, anchor_x |-> 0, anchor_y |-> 0,
                    visible |-> TRUE, rotation |-> 0, rgba |-> Shape_init(c)] :
                   c \in SameColors}
    /\ sameOp = NoSameOp

\* shape.update(color=values)
UpdateColorOnly(values) ==
    /\ eshape' = [eshape EXCEPT !.rgba = update_color(eshape, values)]
    /\ sameOp' = [op |-> "update", values |-> values, before |-> eshape.rgba,
                  other |-> ShapeBase_set_color(eshape.rgba, values)]
    /\ UNCHANGED otherThanSame

\* shape.color = values
AssignColorOnly(values) ==
    /\ eshape' = [eshape EXCEPT !.rgba = ShapeBase_set_color(eshape.rgba, values)]
    /\ sameOp' = [op |-> "color", values |-> values, before |-> eshape.rgba,
                  other |-> update_color(eshape, values)]
    /\ UNCHANGED otherThanSame

SameNext ==
    \/ \E values \in SameColors : UpdateColorOnly(values)
    \/ \E values \in SameColors : AssignColorOnly(values)

-----------------------------------------------------------------------------
(* Claims about update(color=c) and the color setter.                      *)

\* C29: for every RGB or RGBA value c, update(color=c) with the opacity
\* omitted leaves the shape with the same stored RGBA colour as the assignment
\* shape.color = c does from the same state.
C29_SameColor ==
    sameOp.op # "none" => eshape.rgba = sameOp.other

\* C29, where the two agree: for an RGB value, and for an RGBA value whose
\* alpha is the shape's; they always agree on the red, green and blue
C29_SameForRgb ==
    sameOp.op # "none" =>
        /\ Rgb(eshape.rgba) = Rgb(sameOp.other)
        /\ (Len(sameOp.values) = 3 \/ sameOp.values[4] = sameOp.before[4])
              => eshape.rgba = sameOp.other
        /\ sameOp.op = "update" => eshape.rgba[4] = sameOp.before[4]

-----------------------------------------------------------------------------
(* kiglent/matrix.py: Mat4.scale and Mat4.translate against the product    *)
(* with Mat4.from_scale and Mat4.from_translation.                         *)

MaxFactor == 2           \* the components of the vector are in -1 .. MaxFactor

\* a matrix with entries in 0..2 that is neither diagonal nor triangular
DenseMat4 == <<1, 2, 0, 1,  2, 1, 1, 0,  0, 1, 2, 1,  1, 0, 1, 2>>
\* a diagonal matrix, as an orthogonal projection without translation is
DiagonalMat4 == <<2, 0, 0, 0,  0, 2, 0, 0,  0, 0, -1, 0,  0, 0, 0, 1>>
\* a projection with a translation column
ProjectionMat4 == <<2, 0, 0, 0,  0, 2, 0, 0,  0, 0, -1, 0,  -1, -1, 0, 1>>

ComposeMatrices == {IdentityMat4, ShearMat4, DenseMat4, DiagonalMat4, ProjectionMat4}
ComposeVectors == {<<x, y, z>> : x \in -1..MaxFactor, y \in -1..MaxFactor, z \in {1, MaxFactor}}

IsDiagonal3(m) == \A i \in {2, 3, 4, 5, 7, 8, 9, 10, 12} : m[i] = 0

NoCompose == [op |-> "none", vector |-> <<>>, result |-> <<>>]

ComposeInit ==
    /\ cmat = IdentityMat4
    /\ composeCall = NoCompose

\* any matrix of the set as the current projection
ComposeInitAny ==
    /\ cmat \in ComposeMatrices
    /\ composeCall = NoCompose

\* cmat.scale(Vec3(*v))
ScaleMatrix(v) ==
    /\ composeCall' = [op |-> "scale", vector |-> v, result |-> scale(cmat, v)]
    /\ UNCHANGED cmat
    /\ UNCHANGED otherThanCompose

\* cmat.translate(Vec3(*v))
TranslateMatrix(v) ==
    /\ composeCall' = [op |-> "translate", vector |-> v, result |-> translate(cmat, v)]
    /\ UNCHANGED cmat
    /\ UNCHANGED otherThanCompose

ComposeNext ==
    \/ \E v \in ComposeVectors : ScaleMatrix(v)
    \/ \E v \in ComposeVectors : TranslateMatrix(v)

-----------------------------------------------------------------------------
(* Claims about Mat4.scale and Mat4.translate.                             *)

\* C30: for every Mat4 m and 3-vector v, m.scale(v) equals
\* m @ Mat4.from_scale(v) and m.translate(v) equals m @ Mat4.from_translation(v).
C30_ComposeByProduct ==
    /\ composeCall.op = "scale" =>
          composeCall.result = matmul(cmat, from_scale(composeCall.vector))
    /\ composeCall.op = "translate" =>
          composeCall.result = matmul(cmat, from_translation(composeCall.vector))

\* C30, the part that holds: translate is the product for every matrix, and
\* scale is the product for a matrix whose upper-left 3 x 3 block and fourth
\* row of the first three columns are diagonal
C30_TranslateAndDiagonal ==
    /\ composeCall.op = "translate" =>
          composeCall.result = matmul(cmat, from_translation(composeCall.vector))
    /\ (composeCall.op = "scale" /\ IsDiagonal3(cmat)) =>
          composeCall.result = matmul(cmat, from_scale(composeCall.vector))

-----------------------------------------------------------------------------
(* The specifications: one component runs, the others stay idle.           *)

\* the dispatchers and the key handler just constructed
InitEvent ==
    /\ EventInit /\ KeyInit
    /\ ClassInit
    /\ ShapeInit
    /\ GroupInit
    /\ StackInit
    /\ LinkInit
    /\ RectInit
    /\ ColorInit
    /\ SymInit
    /\ ModInit
    /\ ProjInit
    /\ MatmulInit
    /\ VecInit
    /\ DevInit
    /\ InfoInit
    /\ WalkInit
    /\ MigInit
    /\ UpdateInit
    /\ VertsInit
    /\ DrvInit
    /\ RegInit
    /\ SameInit
    /\ ComposeInit

NextEvent == EventNext

SpecEvent == InitEvent /\ [][NextEvent]_vars

\* the window with the key handler pushed
InitKey ==
    /\ KeyboardInit /\ KeyInit
    /\ ClassInit
    /\ ShapeInit
    /\ GroupInit
    /\ StackInit
    /\ LinkInit
    /\ RectInit
    /\ ColorInit
    /\ SymInit
    /\ ModInit
    /\ ProjInit
    /\ MatmulInit
    /\ VecInit
    /\ DevInit
    /\ InfoInit
    /\ WalkInit
    /\ MigInit
    /\ UpdateInit
    /\ VertsInit
    /\ DrvInit
    /\ RegInit
    /\ SameInit
    /\ ComposeInit

NextKey == KeyNext

SpecKey == InitKey /\ [][NextKey]_vars

\* no application class defined yet
InitClass ==
    /\ ClassInit
    /\ EventInit /\ KeyInit
    /\ ShapeInit
    /\ GroupInit
    /\ StackInit
    /\ LinkInit
    /\ RectInit
    /\ ColorInit
    /\ SymInit
    /\ ModInit
    /\ ProjInit
    /\ MatmulInit
    /\ VecInit
    /\ DevInit
    /\ InfoInit
    /\ WalkInit
    /\ MigInit
    /\ UpdateInit
    /\ VertsInit
    /\ DrvInit
    /\ RegInit
    /\ SameInit
    /\ ComposeInit

NextClass == ClassNext

SpecClass == InitClass /\ [][NextClass]_vars

\* a shape as any constructor call leaves it
InitShape ==
    /\ ShapeInitAny
    /\ EventInit /\ KeyInit
    /\ ClassInit
    /\ GroupInit
    /\ StackInit
    /\ LinkInit
    /\ RectInit
    /\ ColorInit
    /\ SymInit
    /\ ModInit
    /\ ProjInit
    /\ MatmulInit
    /\ VecInit
    /\ DevInit
    /\ InfoInit
    /\ WalkInit
    /\ MigInit
    /\ UpdateInit
    /\ VertsInit
    /\ DrvInit
    /\ RegInit
    /\ SameInit
    /\ ComposeInit

NextShape == ShapeNext

SpecShape == InitShape /\ [][NextShape]_vars

\* two groups as their constructors leave them
InitGroup ==
    /\ GroupInitAny
    /\ EventInit /\ KeyInit
    /\ ClassInit
    /\ ShapeInit
    /\ StackInit
    /\ LinkInit
    /\ RectInit
    /\ ColorInit
    /\ SymInit
    /\ ModInit
    /\ ProjInit
    /\ MatmulInit
    /\ VecInit
    /\ DevInit
    /\ InfoInit
    /\ WalkInit
    /\ MigInit
    /\ UpdateInit
    /\ VertsInit
    /\ DrvInit
    /\ RegInit
    /\ SameInit
    /\ ComposeInit

NextGroup == GroupNext

SpecGroup == InitGroup /\ [][NextGroup]_vars

\* a window with some projection and a chain of groups constructed on it
InitStack ==
    /\ StackInitAny
    /\ EventInit /\ KeyInit
    /\ ClassInit
    /\ ShapeInit
    /\ GroupInit
    /\ LinkInit
    /\ RectInit
    /\ ColorInit
    /\ SymInit
    /\ ModInit
    /\ ProjInit
    /\ MatmulInit
    /\ VecInit
    /\ DevInit
    /\ InfoInit
    /\ WalkInit
    /\ MigInit
    /\ UpdateInit
    /\ VertsInit
    /\ DrvInit
    /\ RegInit
    /\ SameInit
    /\ ComposeInit

NextStack == StackNext

SpecStack == InitStack /\ [][NextStack]_vars

\* the libraries as load_library found them
InitLink ==
    /\ LinkInitAny
    /\ EventInit /\ KeyInit
    /\ ClassInit
    /\ ShapeInit
    /\ GroupInit
    /\ StackInit
    /\ RectInit
    /\ ColorInit
    /\ SymInit
    /\ ModInit
    /\ ProjInit
    /\ MatmulInit
    /\ VecInit
    /\ DevInit
    /\ InfoInit
    /\ WalkInit
    /\ MigInit
    /\ UpdateInit
    /\ VertsInit
    /\ DrvInit
    /\ RegInit
    /\ SameInit
    /\ ComposeInit

NextLink == LinkNext

SpecLink == InitLink /\ [][NextLink]_vars

\* a rectangle as any successful constructor call leaves it
InitRect ==
    /\ RectInitAny
    /\ EventInit /\ KeyInit
    /\ ClassInit
    /\ ShapeInit
    /\ GroupInit
    /\ StackInit
    /\ LinkInit
    /\ ColorInit
    /\ SymInit
    /\ ModInit
    /\ ProjInit
    /\ MatmulInit
    /\ VecInit
    /\ DevInit
    /\ InfoInit
    /\ WalkInit
    /\ MigInit
    /\ UpdateInit
    /\ VertsInit
    /\ DrvInit
    /\ RegInit
    /\ SameInit
    /\ ComposeInit

NextRect == RectNext

SpecRect == InitRect /\ [][NextRect]_vars

\* a Rectangle with the default colour
InitColor ==
    /\ ColorInit
    /\ EventInit /\ KeyInit
    /\ ClassInit
    /\ ShapeInit
    /\ GroupInit
    /\ StackInit
    /\ LinkInit
    /\ RectInit
    /\ SymInit
    /\ ModInit
    /\ ProjInit
    /\ MatmulInit
    /\ VecInit
    /\ DevInit
    /\ InfoInit
    /\ WalkInit
    /\ MigInit
    /\ UpdateInit
    /\ VertsInit
    /\ DrvInit
    /\ RegInit
    /\ SameInit
    /\ ComposeInit

NextColor == ColorNext

SpecColor == InitColor /\ [][NextColor]_vars

\* no call made yet
InitSym ==
    /\ SymInit
    /\ EventInit /\ KeyInit
    /\ ClassInit
    /\ ShapeInit
    /\ GroupInit
    /\ StackInit
    /\ LinkInit
    /\ RectInit
    /\ ColorInit
    /\ ModInit
    /\ ProjInit
    /\ MatmulInit
    /\ VecInit
    /\ DevInit
    /\ InfoInit
    /\ WalkInit
    /\ MigInit
    /\ UpdateInit
    /\ VertsInit
    /\ DrvInit
    /\ RegInit
    /\ SameInit
    /\ ComposeInit

NextSym == SymNext

SpecSym == InitSym /\ [][NextSym]_vars

\* no call made yet
InitMod ==
    /\ ModInit
    /\ EventInit /\ KeyInit
    /\ ClassInit
    /\ ShapeInit
    /\ GroupInit
    /\ StackInit
    /\ LinkInit
    /\ RectInit
    /\ ColorInit
    /\ SymInit
    /\ ProjInit
    /\ MatmulInit
    /\ VecInit
    /\ DevInit
    /\ InfoInit
    /\ WalkInit
    /\ MigInit
    /\ UpdateInit
    /\ VertsInit
    /\ DrvInit
    /\ RegInit
    /\ SameInit
    /\ ComposeInit

NextMod == ModNext

SpecMod == InitMod /\ [][NextMod]_vars

\* no call made yet
InitProj ==
    /\ ProjInit
    /\ EventInit /\ KeyInit
    /\ ClassInit
    /\ ShapeInit
    /\ GroupInit
    /\ StackInit
    /\ LinkInit
    /\ RectInit
    /\ ColorInit
    /\ SymInit
    /\ ModInit
    /\ MatmulInit
    /\ VecInit
    /\ DevInit
    /\ InfoInit
    /\ WalkInit
    /\ MigInit
    /\ UpdateInit
    /\ VertsInit
    /\ DrvInit
    /\ RegInit
    /\ SameInit
    /\ ComposeInit

NextProj == ProjNext

SpecProj == InitProj /\ [][NextProj]_vars

\* no product computed yet
InitMatmul ==
    /\ MatmulInit
    /\ EventInit /\ KeyInit
    /\ ClassInit
    /\ ShapeInit
    /\ GroupInit
    /\ StackInit
    /\ LinkInit
    /\ RectInit
    /\ ColorInit
    /\ SymInit
    /\ ModInit
    /\ ProjInit
    /\ VecInit
    /\ DevInit
    /\ InfoInit
    /\ WalkInit
    /\ MigInit
    /\ UpdateInit
    /\ VertsInit
    /\ DrvInit
    /\ RegInit
    /\ SameInit
    /\ ComposeInit

NextMatmul == MatmulNext

SpecMatmul == InitMatmul /\ [][NextMatmul]_vars

\* no operation made yet
InitVec ==
    /\ VecInit
    /\ EventInit /\ KeyInit
    /\ ClassInit
    /\ ShapeInit
    /\ GroupInit
    /\ StackInit
    /\ LinkInit
    /\ RectInit
    /\ ColorInit
    /\ SymInit
    /\ ModInit
    /\ ProjInit
    /\ MatmulInit
    /\ DevInit
    /\ InfoInit
    /\ WalkInit
    /\ MigInit
    /\ UpdateInit
    /\ VertsInit
    /\ DrvInit
    /\ RegInit
    /\ SameInit
    /\ ComposeInit

NextVec == VecNext

SpecVec == InitVec /\ [][NextVec]_vars

\* the module just imported, on any platform
InitDev ==
    /\ DevInitAny
    /\ EventInit /\ KeyInit
    /\ ClassInit
    /\ ShapeInit
    /\ GroupInit
    /\ StackInit
    /\ LinkInit
    /\ RectInit
    /\ ColorInit
    /\ SymInit
    /\ ModInit
    /\ ProjInit
    /\ MatmulInit
    /\ VecInit
    /\ InfoInit
    /\ WalkInit
    /\ MigInit
    /\ UpdateInit
    /\ VertsInit
    /\ DrvInit
    /\ RegInit
    /\ SameInit
    /\ ComposeInit

NextDev == DevNext

SpecDev == InitDev /\ [][NextDev]_vars

\* the module just imported
InitInfo ==
    /\ InfoInit
    /\ EventInit /\ KeyInit
    /\ ClassInit
    /\ ShapeInit
    /\ GroupInit
    /\ StackInit
    /\ LinkInit
    /\ RectInit
    /\ ColorInit
    /\ SymInit
    /\ ModInit
    /\ ProjInit
    /\ MatmulInit
    /\ VecInit
    /\ DevInit
    /\ WalkInit
    /\ MigInit
    /\ UpdateInit
    /\ VertsInit
    /\ DrvInitDebug
    /\ RegInit
    /\ SameInit
    /\ ComposeInit

NextInfo == InfoNext

SpecInfo == InitInfo /\ [][NextInfo]_vars

\* groups constructed with any parents
InitWalk ==
    /\ WalkInitAny
    /\ EventInit /\ KeyInit
    /\ ClassInit
    /\ ShapeInit
    /\ GroupInit
    /\ StackInit
    /\ LinkInit
    /\ RectInit
    /\ ColorInit
    /\ SymInit
    /\ ModInit
    /\ ProjInit
    /\ MatmulInit
    /\ VecInit
    /\ DevInit
    /\ InfoInit
    /\ MigInit
    /\ UpdateInit
    /\ VertsInit
    /\ DrvInit
    /\ RegInit
    /\ SameInit
    /\ ComposeInit

NextWalk == WalkNext

SpecWalk == InitWalk /\ [][NextWalk]_vars

\* a shape just constructed
InitMig ==
    /\ MigInitAny
    /\ EventInit /\ KeyInit
    /\ ClassInit
    /\ ShapeInit
    /\ GroupInit
    /\ StackInit
    /\ LinkInit
    /\ RectInit
    /\ ColorInit
    /\ SymInit
    /\ ModInit
    /\ ProjInit
    /\ MatmulInit
    /\ VecInit
    /\ DevInit
    /\ InfoInit
    /\ WalkInit
    /\ UpdateInit
    /\ VertsInit
    /\ DrvInit
    /\ RegInit
    /\ SameInit
    /\ ComposeInit

NextMig == MigNext

SpecMig == InitMig /\ [][NextMig]_vars

\* a shape just constructed
InitUpdate ==
    /\ UpdateInit
    /\ EventInit /\ KeyInit
    /\ ClassInit
    /\ ShapeInit
    /\ GroupInit
    /\ StackInit
    /\ LinkInit
    /\ RectInit
    /\ ColorInit
    /\ SymInit
    /\ ModInit
    /\ ProjInit
    /\ MatmulInit
    /\ VecInit
    /\ DevInit
    /\ InfoInit
    /\ WalkInit
    /\ MigInit
    /\ VertsInit
    /\ DrvInit
    /\ RegInit
    /\ SameInit
    /\ ComposeInit

NextUpdate == UpdateNext

SpecUpdate == InitUpdate /\ [][NextUpdate]_vars

\* any MultiLine or Arc just constructed
InitVerts ==
    /\ VertsInitAny
    /\ EventInit /\ KeyInit
    /\ ClassInit
    /\ ShapeInit
    /\ GroupInit
    /\ StackInit
    /\ LinkInit
    /\ RectInit
    /\ ColorInit
    /\ SymInit
    /\ ModInit
    /\ ProjInit
    /\ MatmulInit
    /\ VecInit
    /\ DevInit
    /\ InfoInit
    /\ WalkInit
    /\ MigInit
    /\ UpdateInit
    /\ DrvInit
    /\ RegInit
    /\ SameInit
    /\ ComposeInit

NextVerts == VertsNext

SpecVerts == InitVerts /\ [][NextVerts]_vars

\* no driver module imported, the option on or off
InitDrv ==
    /\ DrvInitAny
    /\ EventInit /\ KeyInit
    /\ ClassInit
    /\ ShapeInit
    /\ GroupInit
    /\ StackInit
    /\ LinkInit
    /\ RectInit
    /\ ColorInit
    /\ SymInit
    /\ ModInit
    /\ ProjInit
    /\ MatmulInit
    /\ VecInit
    /\ DevInit
    /\ InfoInit
    /\ WalkInit
    /\ MigInit
    /\ UpdateInit
    /\ VertsInit
    /\ RegInit
    /\ SameInit
    /\ ComposeInit

NextDrv == DrvNext

SpecDrv == InitDrv /\ [][NextDrv]_vars

\* a dispatcher just constructed
InitReg ==
    /\ RegInit
    /\ EventInit /\ KeyInit
    /\ ClassInit
    /\ ShapeInit
    /\ GroupInit
    /\ StackInit
    /\ LinkInit
    /\ RectInit
    /\ ColorInit
    /\ SymInit
    /\ ModInit
    /\ ProjInit
    /\ MatmulInit
    /\ VecInit
    /\ DevInit
    /\ InfoInit
    /\ WalkInit
    /\ MigInit
    /\ UpdateInit
    /\ VertsInit
    /\ DrvInit
    /\ SameInit
    /\ ComposeInit

NextReg == RegNext

SpecReg == InitReg /\ [][NextReg]_vars

\* a shape constructed with any colour
InitSame ==
    /\ SameInitAny
    /\ EventInit /\ KeyInit
    /\ ClassInit
    /\ ShapeInit
    /\ GroupInit
    /\ StackInit
    /\ LinkInit
    /\ RectInit
    /\ ColorInit
    /\ SymInit
    /\ ModInit
    /\ ProjInit
    /\ MatmulInit
    /\ VecInit
    /\ DevInit
    /\ InfoInit
    /\ WalkInit
    /\ MigInit
    /\ UpdateInit
    /\ VertsInit
    /\ DrvInit
    /\ RegInit
    /\ ComposeInit

NextSame == SameNext

SpecSame == InitSame /\ [][NextSame]_vars

\* any matrix of the set
InitCompose ==
    /\ ComposeInitAny
    /\ EventInit /\ KeyInit
    /\ ClassInit
    /\ ShapeInit
    /\ GroupInit
    /\ StackInit
    /\ LinkInit
    /\ RectInit
    /\ ColorInit
    /\ SymInit
    /\ ModInit
    /\ ProjInit
    /\ MatmulInit
    /\ VecInit
    /\ DevInit
    /\ InfoInit
    /\ WalkInit
    /\ MigInit
    /\ UpdateInit
    /\ VertsInit
    /\ DrvInit
    /\ RegInit
    /\ SameInit

NextCompose == ComposeNext

SpecCompose == InitCompose /\ [][NextCompose]_vars

=============================================================================
